---- MODULE Spec2Model ----
(***************************************************************************)
(* AcousticDNA: the fingerprint index (SQLite storage client) and the      *)
(* ingest orchestration that writes to it.                                 *)
(*                                                                         *)
(* The two tables of the store are the variables songs and fingerprints.   *)
(* Every SQL statement the client issues is one step; a statement is       *)
(* atomic, a transaction's writes stay invisible until its commit, and     *)
(* the store admits one writer at a time.  A statement may fail (the       *)
(* store reports an error): the number of such failures is bounded.        *)
(***************************************************************************)
EXTENDS Integers, Sequences, FiniteSets, Bags, TLC

\* ---------------------------------------------------------------- bounds
NumProcs == 2
MaxOps == 1
MaxSeqOps == 3
MaxIngest == 4
MaxStore == 5
MaxFaults == 2
MaxRuns == 2
MaxCancel == 3
MaxPeaks == 8
MaxQuery == 3
MaxMatch == 3
MaxWire == 2
MaxChunks == 3
MaxCallers == 3
MaxInits == 4

\* ----------------------------------------------------- program constants
FlushThreshold == 1000

MaxFreqBits == 9
MaxDeltaBits == 14
FanOut == 6
MinDeltaMs == 10
MaxDeltaMs == 15000

\* ---------------------------------------------------------- input values
Procs == 1..NumProcs
Keys == {"k1", "k2"}
YouTubeIDs == {"", "y1", "y2"}
Hashes == {"h1", "h2"}
Anchors == {0, 100}
RunSizes == {1, 600, 1000}

VARIABLES
  songs,         \* table songs: set of [id, key, yt]; key stands for (title, artist)
  fingerprints,  \* table fingerprints: bag of [hash, song, anchor]
  nextID,        \* number of ids handed out so far, plus one
  tx,            \* the open write transaction: its owner and its pending deletes
  pc,            \* per process: the statement it is about to issue
  op,            \* per process: the call it is in
  arg,           \* per process: the arguments of that call
  loc,           \* per process: local variables of the call
  ret,           \* per process: what its latest call returned
  prev,          \* per process: what its call before that returned
  pre,           \* the tables as they were when the latest call started
  pre2,          \* the tables as they were when the call before it started
  faults,        \* store failures so far
  nops,          \* per process: calls started
  ctx,           \* per process: the context of its call: "live", or where it was cancelled
  input,         \* the arguments of a call of a function of the fingerprint package
  output         \* what that call returned

vars == <<songs, fingerprints, nextID, tx, pc, op, arg, loc, ret, prev, pre, pre2, faults, nops,
          ctx, input, output>>

\* The store and the calls of the service on it.
serviceVars == <<songs, fingerprints, nextID, tx, pc, op, arg, loc, ret, prev, pre, pre2, faults,
                 nops, ctx>>

NoSong == [id |-> 0, key |-> "", yt |-> ""]
NoTx == [owner |-> 0, fpsOf |-> {}, songsOf |-> {}]
NoArg == [key |-> "", yt |-> "", id |-> 0, fp |-> <<>>, hashes |-> {}, peaks |-> <<>>,
          wire |-> {}, query |-> <<>>]
\* The locals of a match: the query entries, len(queryFPs) or len(hashes), the
\* map GetCouplesByHashes returned, the matches, the results appended so far,
\* and the songs the result loop skipped.
NoMatching == [entries |-> <<>>, count |-> 0, db |-> <<>>, matches |-> <<>>, results |-> <<>>,
               skipped |-> {}]
NoLoc == [song |-> NoSong, songID |-> 0, done |-> 0, m |-> NoMatching]
NoRet == [op |-> "none", arg |-> NoArg, ok |-> TRUE, id |-> 0, why |-> "", rb |-> TRUE, res |-> <<>>]
NoTables == [songs |-> {}, fingerprints |-> EmptyBag]

Min(a, b) == IF a < b THEN a ELSE b
Max(a, b) == IF a > b THEN a ELSE b

\* ------------------------------------------------------------ the tables

Song(id, key, yt) == [id |-> id, key |-> key, yt |-> yt]
Fingerprint(hash, song, anchor) == [hash |-> hash, song |-> song, anchor |-> anchor]
Couple(song, anchor) == [song |-> song, anchor |-> anchor]

\* A fingerprint map handed to StoreFingerprints, in the order the two loops
\* walk it: a sequence of runs, each one row repeated n times.
Run(hash, song, anchor, n) == [hash |-> hash, song |-> song, anchor |-> anchor, n |-> n]

RECURSIVE Total(_)
Total(fp) == IF fp = <<>> THEN 0 ELSE Head(fp).n + Total(Tail(fp))

\* Mutant of Entries: a row that occurs several times is inserted once.
RECURSIVE EntriesDistinct(_, _, _)
EntriesDistinct(fp, lo, hi) ==
  IF fp = <<>> \/ hi <= 0 THEN EmptyBag
  ELSE LET r == Head(fp)
           k == Min(hi, r.n) - Max(lo, 0)
           row == Fingerprint(r.hash, r.song, r.anchor)
           rest == EntriesDistinct(Tail(fp), lo - r.n, hi - r.n)
       IN IF k > 0 /\ ~BagIn(row, rest) THEN (row :> 1) (+) rest ELSE rest

\* The rows at positions lo+1..hi of the walk, as a bag.
RECURSIVE Entries(_, _, _)
Entries(fp, lo, hi) ==
  IF fp = <<>> \/ hi <= 0 THEN EmptyBag
  ELSE LET r == Head(fp)
           k == Min(hi, r.n) - Max(lo, 0)
           rest == Entries(Tail(fp), lo - r.n, hi - r.n)
       IN IF k > 0 THEN (Fingerprint(r.hash, r.song, r.anchor) :> k) (+) rest
          ELSE rest

\* AddSong builds the couples with the id RegisterSong returned.
Stamp(fp, id) == [i \in DOMAIN fp |-> [fp[i] EXCEPT !.song = id]]

\* SELECT ... WHERE title = ? AND artist = ?
SongsByKey(key) == {s \in songs : s.key = key}
\* SELECT ... WHERE id = ?
SongsByID(id) == {s \in songs : s.id = id}
\* The rows of a bag that satisfy a WHERE clause.
Where(bag, P(_)) ==
  LET keep == {r \in DOMAIN bag : P(r)} IN [r \in keep |-> bag[r]]

\* Mutant of NewID: the id of a deleted row is handed out again.
SmallestFreeID == CHOOSE i \in 1..nextID : i \notin {s.id : s \in songs}
                                          /\ \A j \in 1..(i - 1) : j \in {s.id : s \in songs}

\* utils.GenerateUUID: 122 random bits, taken to be a value never issued
\* before (the autoincrement variant of the schema never reuses a key either).
NewID == nextID

\* ------------------------------------------------------------------ Init

NoCall == [fn |-> "none"]

\* The store after NewDBClientWithPath, no call made yet.
InitService ==
  /\ songs = {}
  /\ fingerprints = EmptyBag
  /\ nextID = 1
  /\ tx = NoTx
  /\ pc = [p \in Procs |-> "idle"]
  /\ op = [p \in Procs |-> "none"]
  /\ arg = [p \in Procs |-> NoArg]
  /\ loc = [p \in Procs |-> NoLoc]
  /\ ret = [p \in Procs |-> NoRet]
  /\ prev = [p \in Procs |-> NoRet]
  /\ pre = NoTables
  /\ pre2 = NoTables
  /\ faults = 0
  /\ nops = [p \in Procs |-> 0]
  /\ ctx = [p \in Procs |-> "live"]

Init == InitService /\ input = NoCall /\ output = NoCall

\* ---------------------------------------------------------- 32-bit words

\* A uint32 is kept as its two 16-bit halves: every value of the type has a
\* representation, and no operation below leaves 32 bits.
Half == 65536
Word(hi, lo) == [hi |-> hi, lo |-> lo]

\* uint32(n) of an int n: the low 32 bits of its two's complement.
ToU32(n) ==
  IF n >= 0 THEN Word((n \div Half) % Half, n % Half)
  ELSE Word((Half - 1) - ((((-n) - 1) \div Half) % Half), (Half - 1) - (((-n) - 1) % Half))

\* v < w, unsigned.
Less32(v, w) == v.hi < w.hi \/ (v.hi = w.hi /\ v.lo < w.lo)

\* x | y (or = TRUE) and x & y (or = FALSE) on the low n bits.
RECURSIVE BitOp(_, _, _, _)
BitOp(or, x, y, n) ==
  IF n = 0 \/ (x = 0 /\ y = 0) THEN 0
  ELSE LET a == x % 2
           b == y % 2
           bit == IF or THEN (IF a + b > 0 THEN 1 ELSE 0) ELSE a * b
       IN bit + 2 * BitOp(or, x \div 2, y \div 2, n - 1)

Or32(v, w) == Word(BitOp(TRUE, v.hi, w.hi, 16), BitOp(TRUE, v.lo, w.lo, 16))
And32(v, w) == Word(BitOp(FALSE, v.hi, w.hi, 16), BitOp(FALSE, v.lo, w.lo, 16))

\* v << n and v >> n for 0 <= n < 32: the bits shifted out are lost.
Shl32(v, n) ==
  IF n >= 16 THEN Word((v.lo * 2^(n - 16)) % Half, 0)
  ELSE Word((v.hi * 2^n + (v.lo * 2^n) \div Half) % Half, (v.lo * 2^n) % Half)
Shr32(v, n) ==
  IF n >= 16 THEN Word(0, v.hi \div 2^(n - 16))
  ELSE Word(v.hi \div 2^n, (v.lo \div 2^n) + (v.hi % 2^n) * 2^(16 - n))

\* ----------------------------------------------------------- createAddress

\* A spectral peak: its frequency bin and its time, in tenths of a millisecond.
Peak(freqIdx, time) == [FreqIdx |-> freqIdx, Time |-> time]

\* math.Round(seconds * 1000.0): to the nearest millisecond, halves away from zero.
RoundMs(t) == IF t >= 0 THEN (t + 5) \div 10 ELSE -(((-t) + 5) \div 10)

\* Mutant of FitsFreq: the frequency check is left out.
FitsAnything(v) == TRUE

\* anchorFreqVal > maxFreqMask || targetFreqVal > maxFreqMask, negated for one value.
FitsFreq(v) == ~Less32(ToU32(2^MaxFreqBits - 1), v)

\* Mutant of ShiftAnchor: the anchor field starts one bit too low.
ShiftAnchorOverlap == MaxDeltaBits + MaxFreqBits - 1

ShiftTarget == MaxDeltaBits
ShiftAnchor == MaxDeltaBits + MaxFreqBits

NoAddress == [address |-> ToU32(0), ok |-> FALSE]

\* createAddress(anchor, target) (uint32, bool), with UseFreqIdx = true.
createAddress(anchor, target) ==
  LET anchorFreqVal == ToU32(anchor.FreqIdx)
      targetFreqVal == ToU32(target.FreqIdx)
      deltaMs == ToU32(RoundMs(target.Time - anchor.Time))
      maxDeltaMask == ToU32(2^MaxDeltaBits - 1)
  IN IF Less32(deltaMs, ToU32(MinDeltaMs)) \/ Less32(ToU32(MaxDeltaMs), deltaMs)
     THEN NoAddress
     ELSE IF ~FitsFreq(anchorFreqVal) \/ ~FitsFreq(targetFreqVal) THEN NoAddress
     ELSE IF Less32(maxDeltaMask, deltaMs) THEN NoAddress
     ELSE [address |-> Or32(Or32(Shl32(anchorFreqVal, ShiftAnchor),
                                 Shl32(targetFreqVal, ShiftTarget)),
                            And32(deltaMs, maxDeltaMask)),
           ok |-> TRUE]

\* Frequency bins up to the last of the spectrogram (511) and just beyond it.
FreqIdxs == {0, 1, 2, 3, 255, 256, 511, 512, 513}
\* Peak times, and distances between an anchor and a later peak, in tenths of a
\* millisecond: around the rounding to a millisecond and around both limits.
AnchorTimes == {0, 33}
Deltas == {0, 94, 95, 100, 104, 105, 1000, 81920, 149990, 150000, 150004, 150005, 150010,
           163830, 163840, 200000}

\* A call of createAddress on a peak and one that is not earlier.
AddrInit ==
  /\ InitService
  /\ input \in {[fn |-> "createAddress", anchor |-> Peak(a, t), target |-> Peak(b, t + d)] :
                   a \in FreqIdxs, b \in FreqIdxs, t \in AnchorTimes, d \in Deltas}
  /\ output = NoCall

CallCreateAddress ==
  /\ input.fn = "createAddress"
  /\ output = NoCall
  /\ output' = [fn |-> "createAddress", r |-> createAddress(input.anchor, input.target)]
  /\ UNCHANGED <<serviceVars, input>>

\* ------------------------------------------------------------- Fingerprint

\* sort.Slice(peaks, func(i, j) { return peaks[i].Time < peaks[j].Time }): peaks
\* of equal time stay in the order they came in, which is one of the orders the
\* sort may leave them in; the callers pass the peaks in every order.
RECURSIVE SortByTime(_)
SortByTime(peaks) ==
  IF peaks = <<>> THEN <<>>
  ELSE LET rest == SortByTime(SubSeq(peaks, 1, Len(peaks) - 1))
           p == peaks[Len(peaks)]
           k == Cardinality({i \in DOMAIN rest : rest[i].Time <= p.Time})
       IN SubSeq(rest, 1, k) \o <<p>> \o SubSeq(rest, k + 1, Len(rest))

\* Mutant of AfterReject: a rejected target uses up one of the FanOut pairs.
AfterRejectCounts(paired) == paired + 1

\* if !ok { continue }: paired is not incremented.
AfterReject(paired) == paired

\* uint32(math.Round(anchor.Time * 1000.0))
AnchorTimeMs(peak) == RoundMs(peak.Time)

\* The inner loop of Fingerprint for anchor i, from target j on, paired pairs
\* made so far: the pairs it emits, in the order it emits them.
RECURSIVE Targets(_, _, _, _)
Targets(peaks, i, j, paired) ==
  IF j > Len(peaks) \/ paired >= FanOut THEN <<>>
  ELSE LET r == createAddress(peaks[i], peaks[j]) IN
       IF ~r.ok THEN Targets(peaks, i, j + 1, AfterReject(paired))
       ELSE <<[i |-> i, j |-> j, hash |-> r.address, anchor |-> AnchorTimeMs(peaks[i])]>>
            \o Targets(peaks, i, j + 1, paired + 1)

\* The outer loop: for i := 0; i < len(peaks); i++.
RECURSIVE PairsFrom(_, _)
PairsFrom(peaks, i) ==
  IF i > Len(peaks) THEN <<>>
  ELSE Targets(peaks, i, i + 1, 0) \o PairsFrom(peaks, i + 1)

\* Fingerprint(peaks, songID): the peaks as sorted, and the pairs in the order
\* they are appended to the map.
FingerprintPeaks(peaks) ==
  LET sorted == SortByTime(peaks) IN [sorted |-> sorted, pairs |-> PairsFrom(sorted, 1)]

\* An anchor, a later peak it can pair with, and a later peak in a bin that does
\* not fit; two peaks of the same time are less than MinDeltaMs apart.
FanPeaks == {Peak(5, 0), Peak(7, 120), Peak(512, 120)}

PeakLists(alphabet, n) == UNION {[1..k -> alphabet] : k \in 0..n}

FanInit ==
  /\ InitService
  /\ input \in {[fn |-> "Fingerprint", peaks |-> ps] : ps \in PeakLists(FanPeaks, MaxPeaks)}
  /\ output = NoCall

CallFingerprint ==
  /\ input.fn = "Fingerprint"
  /\ output = NoCall
  /\ output' = [fn |-> "Fingerprint", r |-> FingerprintPeaks(input.peaks)]
  /\ UNCHANGED <<serviceVars, input>>

\* ------------------------------------------------------- store failures

\* The statement about to run fails: the store returns an error.
Fault == faults < MaxFaults /\ faults' = faults + 1

\* No other connection holds the write lock.
CanWrite(p) == tx.owner \in {0, p}

\* ---------------------------------------------------------------- return

\* The call of process p returns to its caller outside the service.
Return(p, ok, id, why, rb, res) ==
  /\ pc' = [pc EXCEPT ![p] = "idle"]
  /\ ret' = [ret EXCEPT ![p] = [op |-> op[p], arg |-> arg[p], ok |-> ok, id |-> id,
                                why |-> why, rb |-> rb, res |-> res]]
  /\ op' = [op EXCEPT ![p] = "none"]
  /\ arg' = [arg EXCEPT ![p] = NoArg]
  /\ loc' = [loc EXCEPT ![p] = NoLoc]
  /\ UNCHANGED <<ctx, input, output>>

Finish(p, ok, id, why, rb) == Return(p, ok, id, why, rb, <<>>)

Goto(p, label, newloc) ==
  /\ pc' = [pc EXCEPT ![p] = label]
  /\ loc' = [loc EXCEPT ![p] = newloc]
  /\ UNCHANGED <<op, arg, ret, ctx, input, output>>

\* ---------------------------------------------------------- RegisterSong

\* RegisterSong returns (id, nil) or ("", err): to the caller, or into AddSong.
\* how names the return statement taken.
RegisterReturn(p, ok, id, how) ==
  IF op[p] = "register" THEN Finish(p, ok, id, how, TRUE)
  ELSE IF ok THEN Goto(p, "store", [loc[p] EXCEPT !.songID = id, !.done = 0])
  ELSE Finish(p, FALSE, 0, "register", TRUE)

\* c.DB.Where("title = ? AND artist = ?").First(&song)
RegisterFind(p) ==
  /\ pc[p] = "reg_find"
  /\ UNCHANGED <<songs, fingerprints, nextID, tx, prev, pre, pre2, nops>>
  /\ \/ Fault /\ RegisterReturn(p, FALSE, 0, "error")
     \/ /\ UNCHANGED faults
        /\ IF SongsByKey(arg[p].key) # {}
           THEN LET song == CHOOSE s \in SongsByKey(arg[p].key) : TRUE IN
                IF song.yt = "" /\ arg[p].yt # ""
                THEN Goto(p, "reg_update", [loc[p] EXCEPT !.song = song])
                ELSE RegisterReturn(p, TRUE, song.id, "found")
           ELSE Goto(p, "reg_create", loc[p])

\* Mutant of UpdateYouTubeID: the column is left as it was.
UpdateNothing(id, yt) == songs

\* UPDATE songs SET youtube_id = ? WHERE id = song.ID
UpdateYouTubeID(id, yt) ==
  {IF s.id = id THEN [s EXCEPT !.yt = yt] ELSE s : s \in songs}

\* c.DB.Model(&song).Update("YouTubeID", youtubeID)
RegisterUpdate(p) ==
  /\ pc[p] = "reg_update"
  /\ CanWrite(p)
  /\ UNCHANGED <<fingerprints, nextID, tx, prev, pre, pre2, nops>>
  /\ \/ Fault /\ UNCHANGED songs /\ RegisterReturn(p, FALSE, 0, "error")
     \/ /\ UNCHANGED faults
        /\ songs' = UpdateYouTubeID(loc[p].song.id, arg[p].yt)
        /\ RegisterReturn(p, TRUE, loc[p].song.id, "updated")

\* Mutant of UniqueViolation: the table has no unique index.
NoUniqueIndex(key) == FALSE

\* The unique index idx_song_unique on (title, artist): an INSERT of a pair
\* the table already holds fails with "UNIQUE constraint failed".
UniqueViolation(key) == SongsByKey(key) # {}

\* c.DB.Create(&song)
RegisterCreate(p) ==
  /\ pc[p] = "reg_create"
  /\ CanWrite(p)
  /\ UNCHANGED <<fingerprints, tx, prev, pre, pre2, nops>>
  /\ \/ Fault /\ UNCHANGED <<songs, nextID>> /\ RegisterReturn(p, FALSE, 0, "error")
     \/ /\ UNCHANGED faults
        /\ IF UniqueViolation(arg[p].key)
           THEN UNCHANGED <<songs, nextID>> /\ Goto(p, "reg_refetch", loc[p])
           ELSE /\ songs' = songs \cup {Song(NewID, arg[p].key, arg[p].yt)}
                /\ nextID' = nextID + 1
                /\ RegisterReturn(p, TRUE, NewID, "created")

\* After the constraint violation: fetch the row the other writer created.
RegisterRefetch(p) ==
  /\ pc[p] = "reg_refetch"
  /\ UNCHANGED <<songs, fingerprints, nextID, tx, prev, pre, pre2, nops>>
  /\ \/ Fault /\ RegisterReturn(p, FALSE, 0, "error")
     \/ /\ UNCHANGED faults
        /\ IF SongsByKey(arg[p].key) # {}
           THEN RegisterReturn(p, TRUE, (CHOOSE s \in SongsByKey(arg[p].key) : TRUE).id,
                               "refetched")
           ELSE RegisterReturn(p, FALSE, 0, "error")

\* ----------------------------------------------------- StoreFingerprints

\* fingerprint.Fingerprint(peaks, songID) as a fingerprint map: one couple per pair.
PeakRuns(peaks) ==
  LET pairs == FingerprintPeaks(peaks).pairs IN
  [k \in DOMAIN pairs |-> Run(pairs[k].hash, 0, pairs[k].anchor, 1)]

\* The map StoreFingerprints walks: AddSong's carries the registered id.  The
\* map of an ingest is given as such (fp) or as the peaks it is computed from.
CurFP(p) ==
  IF op[p] = "addsong" THEN Stamp(arg[p].fp \o PeakRuns(arg[p].peaks), loc[p].songID)
  ELSE arg[p].fp

\* The id DeleteSongByID is called with: AddSong's rollback passes songID.
CurID(p) == IF op[p] = "addsong" THEN loc[p].songID ELSE arg[p].id

\* Mutant of StoreReturn: AddSong returns the error without its rollback.
StoreReturnNoRollback(p, ok) ==
  IF op[p] = "store" THEN Finish(p, ok, 0, "store", TRUE)
  ELSE IF ok THEN Finish(p, TRUE, loc[p].songID, "", TRUE)
  ELSE Finish(p, FALSE, loc[p].songID, "store", TRUE)

\* StoreFingerprints returns nil or err: to the caller, or into AddSong, which
\* on an error goes on to s.storage.DeleteSongByID(songID).
StoreReturn(p, ok) ==
  IF op[p] = "store" THEN Finish(p, ok, 0, "store", TRUE)
  ELSE IF ok THEN Finish(p, TRUE, loc[p].songID, "", TRUE)
  ELSE Goto(p, "del_fps", loc[p])

\* The position up to which the next CreateInBatches call inserts: the
\* entries slice is flushed when it holds 1000 rows, and once more at the end.
FlushEnd(done, total) == Min(done + FlushThreshold, total)

\* One c.DB.CreateInBatches(entries, 500): a transaction of its own (gorm
\* wraps the batches of one call in one transaction), so its rows appear at once.
StoreFlush(p) ==
  /\ pc[p] = "store"
  /\ loc[p].done < Total(CurFP(p))
  /\ CanWrite(p)
  /\ UNCHANGED <<songs, nextID, tx, prev, pre, pre2, nops>>
  /\ \/ Fault /\ UNCHANGED fingerprints /\ StoreReturn(p, FALSE)
     \/ /\ UNCHANGED faults
        /\ LET hi == FlushEnd(loc[p].done, Total(CurFP(p))) IN
           /\ fingerprints' = fingerprints (+) Entries(CurFP(p), loc[p].done, hi)
           /\ IF hi = Total(CurFP(p)) THEN StoreReturn(p, TRUE)
              ELSE Goto(p, "store", [loc[p] EXCEPT !.done = hi])

\* An empty map: neither loop runs, len(entries) = 0, return nil.
StoreNothing(p) ==
  /\ pc[p] = "store"
  /\ Total(CurFP(p)) = 0
  /\ UNCHANGED <<songs, fingerprints, nextID, tx, prev, pre, pre2, nops, faults>>
  /\ StoreReturn(p, TRUE)

\* -------------------------------------------------------- DeleteSongByID

\* DeleteSongByID returns nil or err; AddSong ignores what its rollback returns
\* and returns the error of StoreFingerprints.
DeleteReturn(p, ok) ==
  IF op[p] = "delete" THEN Finish(p, ok, arg[p].id, "delete", TRUE)
  ELSE Finish(p, FALSE, loc[p].songID, "store", ok)

\* Mutant of TxDeleteFingerprints: the statement runs outside a transaction.
DeleteFingerprintsNow(p) ==
  /\ tx' = [owner |-> p, fpsOf |-> {CurID(p)}, songsOf |-> {}]
  /\ fingerprints' = Where(fingerprints, LAMBDA r : r.song # CurID(p))
  /\ UNCHANGED songs

\* DELETE FROM fingerprints WHERE song_id = ?, inside the transaction: the
\* rows are gone for the transaction only, until it commits.
TxDeleteFingerprints(p) ==
  /\ tx' = [owner |-> p, fpsOf |-> {CurID(p)}, songsOf |-> {}]
  /\ UNCHANGED <<songs, fingerprints>>

\* DELETE FROM songs WHERE id = ?, inside the transaction.
TxDeleteSong(p) ==
  /\ tx' = [tx EXCEPT !.songsOf = {CurID(p)}]
  /\ UNCHANGED <<songs, fingerprints>>

\* Mutant of TxCommit: the fingerprints of the song are left behind.
TxCommitSongOnly ==
  /\ songs' = {s \in songs : s.id \notin tx.songsOf}
  /\ tx' = NoTx
  /\ UNCHANGED fingerprints

\* The transaction function returned nil: COMMIT makes both deletes visible.
TxCommit ==
  /\ fingerprints' = Where(fingerprints, LAMBDA r : r.song \notin tx.fpsOf)
  /\ songs' = {s \in songs : s.id \notin tx.songsOf}
  /\ tx' = NoTx

\* The transaction function returned an error: ROLLBACK.
TxRollback == tx' = NoTx /\ UNCHANGED <<songs, fingerprints>>

DeleteFingerprints(p) ==
  /\ pc[p] = "del_fps"
  /\ tx.owner = 0
  /\ UNCHANGED <<nextID, prev, pre, pre2, nops>>
  /\ \/ Fault /\ TxRollback /\ DeleteReturn(p, FALSE)
     \/ UNCHANGED faults /\ TxDeleteFingerprints(p) /\ Goto(p, "del_song", loc[p])

DeleteSong(p) ==
  /\ pc[p] = "del_song"
  /\ UNCHANGED <<nextID, prev, pre, pre2, nops>>
  /\ \/ Fault /\ TxRollback /\ DeleteReturn(p, FALSE)
     \/ UNCHANGED faults /\ TxDeleteSong(p) /\ Goto(p, "del_commit", loc[p])

DeleteCommit(p) ==
  /\ pc[p] = "del_commit"
  /\ UNCHANGED <<nextID, prev, pre, pre2, nops>>
  /\ \/ Fault /\ TxRollback /\ DeleteReturn(p, FALSE)
     \/ UNCHANGED faults /\ TxCommit /\ DeleteReturn(p, TRUE)

\* --------------------------------------------------------------- AddSong

\* Steps 1-4 of AddSong (convert, read, spectrogram, peaks): an error returns
\* before the store is touched; otherwise RegisterSong is called.  ctx is
\* handed to ConvertToMonoWAV only: exec.CommandContext fails when it is
\* cancelled, and nothing after the conversion looks at ctx again.
AddSongPipeline(p) ==
  /\ pc[p] = "add_pipeline"
  /\ UNCHANGED <<songs, fingerprints, nextID, tx, prev, pre, pre2, nops, faults>>
  /\ \/ Finish(p, FALSE, 0, "pipeline", TRUE)
     \/ ctx[p] = "live" /\ Goto(p, "reg_find", loc[p])

\* The caller cancels the context of a running AddSong while the call stands
\* at one of its boundaries: before the decoder runs, after the files are read
\* and before RegisterSong, or before StoreFingerprints.
AtBoundary(p) ==
  \/ pc[p] \in {"add_pipeline", "reg_find"}
  \/ pc[p] = "store" /\ loc[p].done = 0

Cancel(p) ==
  /\ op[p] = "addsong"
  /\ ctx[p] = "live"
  /\ AtBoundary(p)
  /\ ctx' = [ctx EXCEPT ![p] = pc[p]]
  /\ UNCHANGED <<songs, fingerprints, nextID, tx, pc, op, arg, loc, ret, prev, pre, pre2,
                 faults, nops, input, output>>

\* ----------------------------------------------------------------- reads

\* GetSongByID: First(&dbSong) fails with gorm.ErrRecordNotFound when no row has the id.
GetSongByID(id) ==
  IF SongsByID(id) = {} THEN [err |-> "NotFound", song |-> NoSong]
  ELSE [err |-> "", song |-> CHOOSE x \in SongsByID(id) : TRUE]

\* GetFingerprintCount: SELECT count(*) FROM fingerprints WHERE song_id = ?
GetFingerprintCount(id) ==
  BagCardinality(Where(fingerprints, LAMBDA r : r.song = id))

\* for _, r := range rows { out = append(out, Couple{r.SongID, r.AnchorTimeMs}) }
RECURSIVE Couples(_)
Couples(rows) ==
  IF DOMAIN rows = {} THEN EmptyBag
  ELSE LET r == CHOOSE x \in DOMAIN rows : TRUE
           rest == [x \in DOMAIN rows \ {r} |-> rows[x]]
       IN (Couple(r.song, r.anchor) :> rows[r]) (+) Couples(rest)

\* GetCouplesByHash: SELECT ... WHERE hash = ?
GetCouplesByHash(hash) ==
  Couples(Where(fingerprints, LAMBDA r : r.hash = hash))

\* Mutant of GroupByHash: the couple replaces the list instead of extending it.
RECURSIVE GroupByHashOverwrite(_)
GroupByHashOverwrite(rows) ==
  IF DOMAIN rows = {} THEN <<>>
  ELSE LET r == CHOOSE x \in DOMAIN rows : TRUE
           rest == [x \in DOMAIN rows \ {r} |-> rows[x]]
           result == GroupByHashOverwrite(rest)
           c == Couple(r.song, r.anchor) :> rows[r]
       IN IF r.hash \in DOMAIN result
          THEN [result EXCEPT ![r.hash] = c]
          ELSE (r.hash :> c) @@ result

\* for _, r := range rows { result[r.Hash] = append(result[r.Hash], Couple{...}) }
RECURSIVE GroupByHash(_)
GroupByHash(rows) ==
  IF DOMAIN rows = {} THEN <<>>
  ELSE LET r == CHOOSE x \in DOMAIN rows : TRUE
           rest == [x \in DOMAIN rows \ {r} |-> rows[x]]
           result == GroupByHash(rest)
           c == Couple(r.song, r.anchor) :> rows[r]
       IN IF r.hash \in DOMAIN result
          THEN [result EXCEPT ![r.hash] = @ (+) c]
          ELSE (r.hash :> c) @@ result

\* GetCouplesByHashes: an empty slice returns an empty map without a query;
\* otherwise SELECT ... WHERE hash IN ?, grouped by the hash of each row.
GetCouplesByHashes(hashes) ==
  IF Len(hashes) = 0 THEN <<>>
  ELSE LET in == {hashes[i] : i \in DOMAIN hashes} IN
       GroupByHash(Where(fingerprints, LAMBDA r : r.hash \in in))

\* ----------------------------------------------------------------- calls

\* Fingerprint maps of at most maxruns runs; the rows of one hash are
\* adjacent in the walk (they are one entry of the map).
RunsOf(hashes, ids, anchors) ==
  {Run(h, s, a, n) : h \in hashes, s \in ids, a \in anchors, n \in RunSizes}
FPMaps(hashes, ids, anchors, maxruns) ==
  {fp \in UNION {[1..k -> RunsOf(hashes, ids, anchors)] : k \in 0..maxruns} :
     \A i, j \in DOMAIN fp :
        (i < j /\ fp[i].hash = fp[j].hash) => \A m \in i..j : fp[m].hash = fp[i].hash}

QueryHashes == Hashes \cup {"h3"}
HashLists == UNION {[1..k -> QueryHashes] : k \in 0..2}

\* Ids a caller can name: those handed out so far, and one that never was.
KnownIDs == 1..nextID

\* What a call costs of the budget of a run: one, and one per run of its map.
Cost(a) == 1 + Len(a.fp)

\* What is remembered when process p starts a call: with hist >= 1 the tables
\* as they are now, with hist = 2 also the call before and the tables before it.
Remember(p, hist) ==
  /\ pre' = IF hist >= 1 THEN [songs |-> songs, fingerprints |-> fingerprints] ELSE pre
  /\ pre2' = IF hist >= 2 THEN pre ELSE pre2
  /\ prev' = IF hist >= 2 THEN [prev EXCEPT ![p] = ret[p]] ELSE prev

\* Process p, idle and within its budget, makes a call.
Begin(p, budget, hist, o, a, label) ==
  /\ pc[p] = "idle"
  /\ nops[p] + Cost(a) <= budget
  /\ pc' = [pc EXCEPT ![p] = label]
  /\ op' = [op EXCEPT ![p] = o]
  /\ arg' = [arg EXCEPT ![p] = a]
  /\ nops' = [nops EXCEPT ![p] = @ + Cost(a)]
  /\ ret' = [ret EXCEPT ![p] = NoRet]
  /\ Remember(p, hist)
  /\ ctx' = [ctx EXCEPT ![p] = "live"]
  /\ UNCHANGED <<songs, fingerprints, nextID, tx, loc, faults, input, output>>

CallRegisterSong(p, budget, hist, keys) ==
  \E k \in keys, y \in YouTubeIDs :
    Begin(p, budget, hist, "register", [NoArg EXCEPT !.key = k, !.yt = y], "reg_find")

CallAddSong(p, budget, hist) ==
  \E k \in Keys, y \in {"", "y1"} :
    \E fp \in FPMaps(Hashes, {0}, {0}, Min(MaxRuns, budget - nops[p] - 1)) :
      Begin(p, budget, hist, "addsong", [NoArg EXCEPT !.key = k, !.yt = y, !.fp = fp],
            "add_pipeline")

CallStoreFingerprints(p, budget, hist) ==
  \E fp \in FPMaps(Hashes, KnownIDs, Anchors, Min(MaxRuns, budget - nops[p] - 1)) :
    Begin(p, budget, hist, "store", [NoArg EXCEPT !.fp = fp], "store")

CallDeleteSongByID(p, budget, hist) ==
  \E id \in KnownIDs :
    Begin(p, budget, hist, "delete", [NoArg EXCEPT !.id = id], "del_fps")

\* A read is one statement: the call starts and returns in one step.
Answer(p, budget, hist, o, a, ok, res) ==
  /\ pc[p] = "idle"
  /\ nops[p] < budget
  /\ nops' = [nops EXCEPT ![p] = @ + 1]
  /\ ret' = [ret EXCEPT ![p] = [op |-> o, arg |-> a, ok |-> ok, id |-> a.id,
                                why |-> o, rb |-> TRUE, res |-> <<res>>]]
  /\ Remember(p, hist)
  /\ UNCHANGED <<songs, fingerprints, nextID, tx, pc, op, arg, loc, ctx, input, output>>

CallGetSongByID(p, budget, hist) ==
  \E id \in KnownIDs :
    \/ Fault /\ Answer(p, budget, hist, "get", [NoArg EXCEPT !.id = id], FALSE, "error")
    \/ /\ UNCHANGED faults
       /\ Answer(p, budget, hist, "get", [NoArg EXCEPT !.id = id],
                 GetSongByID(id).err = "", GetSongByID(id))

CallGetFingerprintCount(p, budget, hist) ==
  \E id \in KnownIDs :
    \/ Fault /\ Answer(p, budget, hist, "count", [NoArg EXCEPT !.id = id], FALSE, "error")
    \/ /\ UNCHANGED faults
       /\ Answer(p, budget, hist, "count", [NoArg EXCEPT !.id = id], TRUE,
                 GetFingerprintCount(id))

CallGetCouplesByHash(p, budget, hist) ==
  \E h \in QueryHashes :
    \/ Fault /\ Answer(p, budget, hist, "byhash", [NoArg EXCEPT !.hashes = <<h>>], FALSE, "error")
    \/ /\ UNCHANGED faults
       /\ Answer(p, budget, hist, "byhash", [NoArg EXCEPT !.hashes = <<h>>], TRUE,
                 GetCouplesByHash(h))

CallGetCouplesByHashes(p, budget, hist) ==
  \E hs \in HashLists :
    \/ Fault /\ Len(hs) > 0
       /\ Answer(p, budget, hist, "byhashes", [NoArg EXCEPT !.hashes = hs], FALSE, "error")
    \/ /\ UNCHANGED faults
       /\ Answer(p, budget, hist, "byhashes", [NoArg EXCEPT !.hashes = hs], TRUE,
                 GetCouplesByHashes(hs))

\* ------------------------------------------------------------ the matcher

Match(song, offset, count) == [song |-> song, offset |-> offset, count |-> count]

\* v - w on 32 bits.
Sub32(v, w) ==
  LET lo == v.lo - w.lo
      borrow == IF lo < 0 THEN 1 ELSE 0
  IN Word((v.hi - w.hi - borrow) % Half, lo % Half)

\* int32(cou.AnchorTimeMs) - int32(queryAnchor), as the 32 bits of the int32
\* it yields.  Stored anchors are kept as numbers below 2^31, query anchors as
\* words.
Offset(dbAnchor, queryAnchor) == Sub32(ToU32(dbAnchor), queryAnchor)

\* for _, cou := range bucket { votes[cou.SongID][offset]++ }
RECURSIVE VoteBucket(_, _, _)
VoteBucket(votes, bucket, queryAnchor) ==
  IF DOMAIN bucket = {} THEN votes
  ELSE LET cou == CHOOSE x \in DOMAIN bucket : TRUE
           rest == [x \in DOMAIN bucket \ {cou} |-> bucket[x]]
           offset == Offset(cou.anchor, queryAnchor)
           m == IF cou.song \in DOMAIN votes THEN votes[cou.song] ELSE <<>>
           m2 == IF offset \in DOMAIN m THEN [m EXCEPT ![offset] = @ + bucket[cou]]
                 ELSE (offset :> bucket[cou]) @@ m
           votes2 == IF cou.song \in DOMAIN votes THEN [votes EXCEPT ![cou.song] = m2]
                     ELSE (cou.song :> m2) @@ votes
       IN VoteBucket(votes2, rest, queryAnchor)

\* The voting loop over the query entries, a sequence of [hash, anchor].
RECURSIVE Vote(_, _, _)
Vote(votes, entries, db) ==
  IF entries = <<>> THEN votes
  ELSE LET e == Head(entries) IN
       Vote(IF e.hash \in DOMAIN db THEN VoteBucket(votes, db[e.hash], e.anchor) ELSE votes,
            Tail(entries), db)

\* Mutant of Better: the first offset met is kept.
BetterFirst(cnt, bestCount) == bestCount = 0

\* if cnt > bestCount
Better(cnt, bestCount) == cnt > bestCount

\* for off, cnt := range offsets, in the order the map is walked.
RECURSIVE BestOffset(_, _, _)
BestOffset(offsets, order, best) ==
  IF order = <<>> THEN best
  ELSE LET off == Head(order) IN
       BestOffset(offsets, Tail(order),
                  IF Better(offsets[off], best.count) THEN Match(best.song, off, offsets[off])
                  ELSE best)

\* for songID, offsets := range votes, in the order the map is walked: a match
\* is appended for each song whose best count is positive.
RECURSIVE BestMatches(_, _)
BestMatches(votes, order) ==
  IF order.songs = <<>> THEN <<>>
  ELSE LET songID == Head(order.songs)
           best == BestOffset(votes[songID], order.offsets[songID], Match(songID, Word(0, 0), 0))
           rest == BestMatches(votes, [order EXCEPT !.songs = Tail(@)])
       IN IF best.count > 0 THEN <<best>> \o rest ELSE rest

\* Go walks a map in an order it does not specify: every order of the songs
\* and, for each song, every order of its offsets.
RECURSIVE Perms(_)
Perms(S) ==
  IF S = {} THEN {<<>>} ELSE UNION {{<<x>> \o q : q \in Perms(S \ {x})} : x \in S}

IterationOrders(votes) ==
  {[songs |-> so, offsets |-> oo] :
     so \in Perms(DOMAIN votes),
     oo \in {f \in [DOMAIN votes -> UNION {Perms(DOMAIN votes[x]) : x \in DOMAIN votes}] :
               \A x \in DOMAIN votes : f[x] \in Perms(DOMAIN votes[x])}}

\* Mutant of SortByCount: the matches stay in the order of the walk.
SortNothing(matches) == matches

\* sort.Slice(matches, func(i, j) { return matches[i].Count > matches[j].Count }):
\* matches of equal count stay in the order of the walk, and the walk takes
\* every order.
RECURSIVE SortByCount(_)
SortByCount(matches) ==
  IF matches = <<>> THEN <<>>
  ELSE LET rest == SortByCount(SubSeq(matches, 1, Len(matches) - 1))
           m == matches[Len(matches)]
           k == Cardinality({i \in DOMAIN rest : rest[i].count >= m.count})
       IN SubSeq(rest, 1, k) \o <<m>> \o SubSeq(rest, k + 1, Len(rest))

\* Mutant of QueryAfterReject: a rejected target uses up one of the FanOut pairs.
QueryAfterRejectCounts(paired) == paired + 1

\* if !ok { continue } in QueryFingerprints: paired++ comes after it.
QueryAfterReject(paired) == paired

\* The inner loop of QueryFingerprints for anchor i, from target j on: the
\* addresses it votes with, each with int32(math.Round(anchor.Time*1000.0)).
RECURSIVE QueryTargets(_, _, _, _)
QueryTargets(queryPeaks, i, j, paired) ==
  IF j > Len(queryPeaks) \/ paired >= FanOut THEN <<>>
  ELSE LET r == createAddress(queryPeaks[i], queryPeaks[j]) IN
       IF ~r.ok THEN QueryTargets(queryPeaks, i, j + 1, QueryAfterReject(paired))
       ELSE <<[hash |-> r.address, anchor |-> ToU32(RoundMs(queryPeaks[i].Time))]>>
            \o QueryTargets(queryPeaks, i, j + 1, paired + 1)

\* The outer loop of QueryFingerprints: for i := 0; i < len(queryPeaks); i++.
RECURSIVE QueryPairsFrom(_, _)
QueryPairsFrom(queryPeaks, i) ==
  IF i > Len(queryPeaks) THEN <<>>
  ELSE QueryTargets(queryPeaks, i, i + 1, 0) \o QueryPairsFrom(queryPeaks, i + 1)

\* Mutant of QueryEntries: every entry is anchored at time 0.
QueryEntriesFromZero(queryPeaks) ==
  LET pairs == QueryPairsFrom(SortByTime(queryPeaks), 1) IN
  [k \in DOMAIN pairs |-> [hash |-> pairs[k].hash, anchor |-> ToU32(0)]]

\* The query entries of QueryFingerprints: the peaks sorted by time, then
\* paired by its own loops.
QueryEntries(queryPeaks) == QueryPairsFrom(SortByTime(queryPeaks), 1)

QueryVotes(queryPeaks, db) == Vote(<<>>, QueryEntries(queryPeaks), db)

\* The matches the two loops over the votes can append, one list for each
\* order in which the maps may be walked.
MatchesOf(votes) == {BestMatches(votes, order) : order \in IterationOrders(votes)}

\* QueryFingerprints(queryPeaks, db): the lists it can return.
QueryFingerprints(queryPeaks, db) ==
  {SortByCount(matches) : matches \in MatchesOf(QueryVotes(queryPeaks, db))}

\* Query peaks: two bins, three frames 12 ms apart.
QueryPeaks == {Peak(5, 0), Peak(7, 120), Peak(5, 240)}

\* Database maps: under each of two addresses the query can produce, any set
\* of couples of two songs at two anchors, or one couple twice.
DBHashes == {createAddress(Peak(5, 0), Peak(7, 120)).address,
             createAddress(Peak(7, 120), Peak(5, 240)).address}
DBCouples == {Couple(id, a) : id \in {1, 2}, a \in {0, 12}}
Buckets == {[c \in cs |-> 1] : cs \in SUBSET DBCouples} \cup {Couple(1, 0) :> 2}
DBMaps ==
  {[h \in {x \in DBHashes : m[x] # <<>>} |-> m[h]] : m \in [DBHashes -> Buckets]}

QueryInit ==
  /\ InitService
  /\ input \in {[fn |-> "QueryFingerprints", queryPeaks |-> ps, db |-> db] :
                   ps \in PeakLists(QueryPeaks, MaxQuery), db \in DBMaps}
  /\ output = NoCall

CallQueryFingerprints ==
  /\ input.fn = "QueryFingerprints"
  /\ output = NoCall
  /\ \E matches \in QueryFingerprints(input.queryPeaks, input.db) :
       output' = [fn |-> "QueryFingerprints", r |-> matches]
  /\ UNCHANGED <<serviceVars, input>>

\* Peak lists for the two pairing loops: a peak, a second one of the same time
\* (rejected as a target), and later peaks it can pair with.
PairPeaks == {Peak(5, 0), Peak(7, 120)}

PairInit ==
  /\ InitService
  /\ input \in {[fn |-> "MatchSong", peaks |-> ps] : ps \in PeakLists(PairPeaks, MaxPeaks)}
  /\ output = NoCall

\* MatchSong from the peaks on: queryFPs := Fingerprint(queryPeaks, ""), which
\* sorts the slice in place, then QueryFingerprints(queryPeaks, dbMap) on that
\* slice; what is kept is the pairs of the first and the entries of the second.
CallPairPeaks ==
  /\ input.fn = "MatchSong"
  /\ output = NoCall
  /\ LET queryFPs == FingerprintPeaks(input.peaks) IN
     output' = [fn |-> "MatchSong", queryFPs |-> queryFPs,
                entries |-> QueryEntries(queryFPs.sorted)]
  /\ UNCHANGED <<serviceVars, input>>

\* Eight peaks of different (time, bin), as ExtractPeaks orders them: seven
\* later than the first, the last two in one frame.
OrderPeaks ==
  <<Peak(5, 0), Peak(7, 120), Peak(7, 240), Peak(7, 360), Peak(7, 480), Peak(7, 600),
    Peak(7, 720), Peak(9, 720)>>

\* The peaks of OrderPeaks at the positions of S, in that order.
RECURSIVE Pick(_, _)
Pick(S, from) ==
  IF from > Len(OrderPeaks) THEN <<>>
  ELSE (IF from \in S THEN <<OrderPeaks[from]>> ELSE <<>>) \o Pick(S, from + 1)

\* The list with the peaks at positions i and i + 1 exchanged, if it has both.
Swap(peaks, i) ==
  IF i = 0 \/ i >= Len(peaks) THEN peaks
  ELSE [k \in DOMAIN peaks |-> IF k = i THEN peaks[i + 1] ELSE IF k = i + 1 THEN peaks[i]
                                                          ELSE peaks[k]]

\* The hash-to-couples map Fingerprint(peaks, songID) returns: under each
\* address the couples appended to it.
RECURSIVE CouplesUnder(_, _, _)
CouplesUnder(pairs, addr, songID) ==
  IF pairs = <<>> THEN <<>>
  ELSE (IF Head(pairs).hash = addr THEN <<Couple(songID, Head(pairs).anchor)>> ELSE <<>>)
       \o CouplesUnder(Tail(pairs), addr, songID)

FingerprintMap(peaks, songID) ==
  LET pairs == FingerprintPeaks(peaks).pairs IN
  [addr \in {pairs[k].hash : k \in DOMAIN pairs} |-> CouplesUnder(pairs, addr, songID)]

\* Two orderings of the same peaks.
OrderInit ==
  /\ InitService
  /\ input \in {[fn |-> "Fingerprint", peaks |-> Pick(S, 1), other |-> Swap(Pick(S, 1), i)] :
                   S \in {T \in SUBSET DOMAIN OrderPeaks : Cardinality(T) <= MaxPeaks},
                   i \in 0..(Len(OrderPeaks) - 1)}
  /\ output = NoCall

CallFingerprintTwice ==
  /\ input.fn = "Fingerprint"
  /\ output = NoCall
  /\ output' = [fn |-> "Fingerprint", fp |-> FingerprintMap(input.peaks, 0),
                other |-> FingerprintMap(input.other, 0)]
  /\ UNCHANGED <<serviceVars, input>>

\* ------------------------------------------------------------ the WAV reader

\* A file is the sequence of its bytes; f is read from offset pos, counted
\* from the end of the 12-byte RIFF header.
FmtID == <<102, 109, 116, 32>>
DataID == <<100, 97, 116, 97>>
ListID == <<76, 73, 83, 84>>

\* binary.Read(f, binary.LittleEndian, &v) for a uint16 and a uint32 at pos.
\* The files of the model keep the top byte of a uint32 below 128.
LE16(f, pos) == f[pos + 1] + 256 * f[pos + 2]
LE32(f, pos) == f[pos + 1] + 256 * f[pos + 2] + 65536 * f[pos + 3] + 16777216 * f[pos + 4]

WavFormat(audioFormat, numChannels, sampleRate, bitsPerSample) ==
  [AudioFormat |-> audioFormat, NumChannels |-> numChannels, SampleRate |-> sampleRate,
   BitsPerSample |-> bitsPerSample]

NoWavData == [Format |-> WavFormat(0, 0, 0, 0), Data |-> <<>>]
NoScan == [w |-> NoWavData, fmtFound |-> FALSE, dataFound |-> FALSE]

\* readFmtChunk: six reads, 16 bytes, whatever chunkSize says; then a seek
\* over the chunkSize - 16 bytes that remain, if any.  A seek never fails,
\* also not beyond the end of the file.
readFmtChunk(f, pos, chunkSize) ==
  IF Len(f) - pos < 16 THEN [err |-> "reading fmt", pos |-> pos]
  ELSE [err |-> "",
        format |-> WavFormat(LE16(f, pos), LE16(f, pos + 2), LE32(f, pos + 4), LE16(f, pos + 14)),
        pos |-> pos + 16 + Max(chunkSize - 16, 0)]

\* readDataChunk: io.ReadFull of chunkSize bytes.
readDataChunk(f, pos, chunkSize) ==
  IF Len(f) - pos < chunkSize THEN [err |-> "reading data chunk", pos |-> pos]
  ELSE [err |-> "", data |-> SubSeq(f, pos + 1, pos + chunkSize), pos |-> pos + chunkSize]

\* skipChunk: f.Seek(int64(chunkSize), io.SeekCurrent)
skipChunk(pos, chunkSize) == pos + chunkSize

\* Mutant of PadBytes: no pad byte is skipped.
PadBytesNone(chunkSize) == 0

\* if chunkSize%2 == 1 { f.Seek(1, io.SeekCurrent) }
PadBytes(chunkSize) == IF chunkSize % 2 = 1 THEN 1 ELSE 0

\* After the loop: both chunks are required.
ScanResult(st) ==
  IF ~st.fmtFound THEN [err |-> "fmt chunk not found", w |-> NoWavData]
  ELSE IF ~st.dataFound THEN [err |-> "data chunk not found", w |-> NoWavData]
  ELSE [err |-> "", w |-> st.w]

\* The loop of scanWavChunks from offset pos.  Reading the id at or beyond the
\* end of the file is io.EOF and leaves the loop; a header cut short is an error.
RECURSIVE ScanFrom(_, _, _)
ScanFrom(f, pos, st) ==
  IF Len(f) - pos <= 0 THEN ScanResult(st)
  ELSE IF Len(f) - pos < 4 THEN [err |-> "reading chunk header", w |-> NoWavData]
  ELSE IF Len(f) - pos < 8 THEN [err |-> "reading chunk size", w |-> NoWavData]
  ELSE LET id == SubSeq(f, pos + 1, pos + 4)
           chunkSize == LE32(f, pos + 4)
           body == pos + 8
           fm == readFmtChunk(f, body, chunkSize)
           dt == readDataChunk(f, body, chunkSize)
           end == IF id = FmtID THEN fm.pos ELSE IF id = DataID THEN dt.pos
                  ELSE skipChunk(body, chunkSize)
           next == IF id = FmtID THEN [st EXCEPT !.w.Format = fm.format, !.fmtFound = TRUE]
                   ELSE IF id = DataID THEN [st EXCEPT !.w.Data = dt.data, !.dataFound = TRUE]
                   ELSE st
       IN IF id = FmtID /\ fm.err # "" THEN [err |-> fm.err, w |-> NoWavData]
          ELSE IF id = DataID /\ dt.err # "" THEN [err |-> dt.err, w |-> NoWavData]
          ELSE IF next.fmtFound /\ next.dataFound THEN ScanResult(next)
          ELSE ScanFrom(f, end + PadBytes(chunkSize), next)

scanWavChunks(f) == ScanFrom(f, 0, NoScan)

\* A chunk as a writer lays it out: id, size, body, and a pad byte after a
\* body of odd length.
Bytes16(n) == <<n % 256, n \div 256>>
Bytes32(n) == <<n % 256, (n \div 256) % 256, (n \div 65536) % 256, n \div 16777216>>
Chunk(id, body) == [id |-> id, body |-> body]
FmtBody(w, extra) ==
  Bytes16(w.AudioFormat) \o Bytes16(w.NumChannels) \o Bytes32(w.SampleRate)
    \o Bytes32(w.SampleRate * w.NumChannels * (w.BitsPerSample \div 8))
    \o Bytes16(w.NumChannels * (w.BitsPerSample \div 8)) \o Bytes16(w.BitsPerSample) \o extra
ChunkBytes(c) ==
  c.id \o Bytes32(Len(c.body)) \o c.body \o (IF Len(c.body) % 2 = 1 THEN <<0>> ELSE <<>>)

RECURSIVE FileOf(_)
FileOf(chunks) == IF chunks = <<>> THEN <<>> ELSE ChunkBytes(Head(chunks)) \o FileOf(Tail(chunks))

\* Chunks: a 16-byte fmt (mono, 8000 Hz), a 17-byte fmt (stereo, 44100 Hz), a
\* data chunk of two bytes and one of three, a LIST chunk of one byte, and a
\* LIST chunk whose body reads as the header of an empty data chunk.
MonoFormat == WavFormat(1, 1, 8000, 16)
StereoFormat == WavFormat(1, 2, 44100, 16)
WavChunks ==
  {Chunk(FmtID, FmtBody(MonoFormat, <<>>)), Chunk(FmtID, FmtBody(StereoFormat, <<7>>)),
   Chunk(DataID, <<1, 2>>), Chunk(DataID, <<3, 4, 5>>),
   Chunk(ListID, <<100>>), Chunk(ListID, DataID \o Bytes32(0))}

WavInit ==
  /\ InitService
  /\ input \in {[fn |-> "scanWavChunks", chunks |-> cs, f |-> FileOf(cs)] :
                   cs \in UNION {[1..k -> WavChunks] : k \in 0..MaxChunks}}
  /\ output = NoCall

CallScanWavChunks ==
  /\ input.fn = "scanWavChunks"
  /\ output = NoCall
  /\ output' = [fn |-> "scanWavChunks", r |-> scanWavChunks(input.f)]
  /\ UNCHANGED <<serviceVars, input>>

\* ------------------------------------------------------- WASMLoader.init

\* The pages and components that call init() on the one loader of the page.
Callers == 1..MaxCallers

\* Where a call of init() stands: not made, suspended in one of the awaits of
\* the try block, waiting on the interval timer of the loading branch, or
\* settled.
Awaiting == {"_loadWasmExec", "fetch", "instantiate", "_waitForWasmReady"}
Settled == {"resolved", "rejected"}

\* The loader the constructor leaves and no call of init() made yet.
LoaderInit ==
  /\ InitService
  /\ input = [fn |-> "init", ready |-> FALSE, loading |-> FALSE, inits |-> 0]
  /\ output = [fn |-> "init", call |-> [c \in Callers |-> "none"]]

Settle(c, at) == output' = [output EXCEPT !.call[c] = at]

\* The synchronous head of init(), up to its first await or its return. A
\* caller calls again only once its earlier call has settled.
CallInit(c) ==
  /\ output.call[c] \in {"none"} \cup Settled
  /\ input.inits < MaxInits
  /\ IF input.ready
       THEN /\ Settle(c, "resolved")
            /\ input' = [input EXCEPT !.inits = @ + 1]
       ELSE IF input.loading
         THEN /\ Settle(c, "checkReady")
              /\ input' = [input EXCEPT !.inits = @ + 1]
         ELSE /\ Settle(c, "_loadWasmExec")
              /\ input' = [input EXCEPT !.inits = @ + 1, !.loading = TRUE]
  /\ UNCHANGED serviceVars

\* The catch block: loading is cleared and the call rejects.
Catch(c) ==
  /\ Settle(c, "rejected")
  /\ input' = [input EXCEPT !.loading = FALSE]

\* An await of the try block settles: the call goes on to the next await, or
\* the promise rejected and the catch block runs.
Resume(c, at, next, ok) ==
  /\ output.call[c] = at
  /\ IF ok
       THEN /\ Settle(c, next)
            /\ UNCHANGED input
       ELSE Catch(c)
  /\ UNCHANGED serviceVars

\* The script of wasm_exec.js loads or fails to load.
LoadWasmExec(c, ok) == Resume(c, "_loadWasmExec", "fetch", ok)

\* fetch of fingerprint.wasm.
Fetch(c, ok) == Resume(c, "fetch", "instantiate", ok)

\* WebAssembly.instantiateStreaming, then go.run and the wait that follows.
Instantiate(c, ok) == Resume(c, "instantiate", "_waitForWasmReady", ok)

\* The wasmReady event arrives, or the timer of ten seconds rejects. After the
\* event the rest of the try block runs to the end.
WaitForWasmReady(c, ok) ==
  /\ output.call[c] = "_waitForWasmReady"
  /\ IF ok
       THEN /\ Settle(c, "resolved")
            /\ input' = [input EXCEPT !.ready = TRUE, !.loading = FALSE]
       ELSE Catch(c)
  /\ UNCHANGED serviceVars

\* One tick of the interval timer of the loading branch.
CheckReady(c) ==
  /\ output.call[c] = "checkReady"
  /\ IF input.ready
       THEN Settle(c, "resolved")
       ELSE UNCHANGED output
  /\ UNCHANGED <<serviceVars, input>>

\* What the event loop does for caller c without anybody calling anything:
\* promises settle and timers fire.
EventLoop(c) ==
  \/ \E ok \in BOOLEAN : LoadWasmExec(c, ok)
  \/ \E ok \in BOOLEAN : Fetch(c, ok)
  \/ \E ok \in BOOLEAN : Instantiate(c, ok)
  \/ \E ok \in BOOLEAN : WaitForWasmReady(c, ok)
  \/ CheckReady(c)

\* ----------------------------------------------------- calculateConfidence

\* Floating-point values are kept in fixed point: a ratio and an exponent in
\* ten-thousandths, a confidence and a value of math.Exp in thousandths, each
\* rounded down.

\* e^k in thousandths for k = -7 .. 3; below that it is less than 0.0005.
ExpTable == <<1, 2, 7, 18, 50, 135, 368, 1000, 2718, 7389, 20086>>

\* e^f in thousandths for 0 <= f < 1 (f in ten-thousandths): 1 + f + f^2/2! + ...
RECURSIVE ExpSeries(_, _, _)
ExpSeries(f, term, n) ==
  IF term = 0 THEN 0 ELSE term + ExpSeries(f, (term * f) \div (10000 * n), n + 1)

\* math.Exp(x), x in ten-thousandths and at most 3.
Exp(x) ==
  LET k == x \div 10000
      f == x % 10000
  IN IF k < -7 THEN 0 ELSE (ExpTable[k + 8] * ExpSeries(f, 1000, 1)) \div 1000

\* Mutant of Penalty: the factor matchCount / 5 is taken in integers.
PenaltyIntDiv(confidence, matchCount) == confidence * (matchCount \div 5)

\* confidence *= float64(matchCount) / 5.0
Penalty(confidence, matchCount) == (confidence * matchCount) \div 5

\* calculateConfidence(matchCount, queryFPCount, dbFPCount), in thousandths.
calculateConfidence(matchCount, queryFPCount, dbFPCount) ==
  IF matchCount = 0 \/ queryFPCount = 0 \/ dbFPCount = 0 THEN 0
  ELSE LET minFPCount == Min(queryFPCount, dbFPCount)
           ratio == (matchCount * 10000) \div minFPCount
           exponent == -20 * (ratio - 1500)
           sigmoid == (100 * 1000 * 1000) \div (1000 + Exp(exponent))
           boost == (ratio - 3000) * 5
           confidence == IF ratio > 3000 THEN Min(100 * 1000, sigmoid + boost) ELSE sigmoid
       IN IF matchCount < 5 THEN Penalty(confidence, matchCount) ELSE confidence

\* Counts of aligned pairs, of query hashes and of rows of a reference.
Counts == {0, 1, 2, 3, 4, 5, 6, 7, 20, 100, 1000}

ConfInit ==
  /\ InitService
  /\ input \in {[fn |-> "calculateConfidence", matchCount |-> m, queryFPCount |-> q,
                   dbFPCount |-> d] : m \in Counts, q \in Counts, d \in Counts}
  /\ output = NoCall

CallCalculateConfidence ==
  /\ input.fn = "calculateConfidence"
  /\ output = NoCall
  /\ output' = [fn |-> "calculateConfidence",
                r |-> calculateConfidence(input.matchCount, input.queryFPCount, input.dbFPCount)]
  /\ UNCHANGED <<serviceVars, input>>

\* ----------------------------------------------------- the wire request

\* One entry of MatchHashesRequest.Hashes: the key as its characters (a digit,
\* or 10 for any other character) and the anchor time.
Wire(key, anchorTime) == [key |-> key, anchorTime |-> anchorTime]

\* strconv.ParseUint(hashStr, 10, 32): fails on an empty string, on a character
\* that is no digit, and on a value of 2^32 or more.
RECURSIVE ParseDigits(_, _)
ParseDigits(digits, value) ==
  IF digits = <<>> THEN [ok |-> TRUE, value |-> value]
  ELSE LET d == Head(digits)
           lo == value.lo * 10 + d
           hi == value.hi * 10 + lo \div Half
       IN IF d > 9 \/ hi >= Half THEN [ok |-> FALSE, value |-> ToU32(0)]
          ELSE ParseDigits(Tail(digits), Word(hi, lo % Half))

ParseUint(hashStr) ==
  IF hashStr = <<>> THEN [ok |-> FALSE, value |-> ToU32(0)] ELSE ParseDigits(hashStr, ToU32(0))

\* isValidHash(hash)
isValidHash(hash) ==
  LET deltaTime == And32(hash, ToU32(16383))
      targetFreq == And32(Shr32(hash, 14), ToU32(511))
      anchorFreq == And32(Shr32(hash, 23), ToU32(511))
  IN ~ \/ Less32(deltaTime, ToU32(10)) \/ Less32(ToU32(15000), deltaTime)
       \/ anchorFreq = ToU32(0) /\ targetFreq = ToU32(0)
       \/ Less32(ToU32(511), anchorFreq) \/ Less32(ToU32(511), targetFreq)

\* The loop of ToHashMap over r.Hashes, walked in the given order: a key that
\* does not parse fails the request, an invalid hash is skipped, and a hash
\* that two keys spell keeps the anchor time of the key walked last.
RECURSIVE ToHashMapFrom(_, _)
ToHashMapFrom(order, result) ==
  IF order = <<>> THEN [ok |-> TRUE, result |-> result]
  ELSE LET parsed == ParseUint(Head(order).key) IN
       IF ~parsed.ok THEN [ok |-> FALSE, result |-> <<>>]
       ELSE IF ~isValidHash(parsed.value) THEN ToHashMapFrom(Tail(order), result)
       ELSE ToHashMapFrom(Tail(order), (parsed.value :> Head(order).anchorTime) @@ result)

\* Mutant of ToHashMap: a request left without a hash is passed on.
ToHashMapAllowEmpty(order) == ToHashMapFrom(order, <<>>)

\* ToHashMap: an error as well when every hash was skipped.
ToHashMap(order) ==
  LET r == ToHashMapFrom(order, <<>>) IN
  IF r.ok /\ DOMAIN r.result = {} THEN [ok |-> FALSE, result |-> <<>>] ELSE r

\* The decimal numeral of a word, as a client writes a hash as a JSON key.
RECURSIVE Decimal(_)
Decimal(w) ==
  LET x == (w.hi % 10) * Half + w.lo
      q == Word(w.hi \div 10, x \div 10)
  IN IF q = ToU32(0) THEN <<x % 10>> ELSE Decimal(q) \o <<x % 10>>

\* The address with the given three fields, in range or not.
Pack(a, t, d) ==
  Or32(Or32(Shl32(ToU32(a), ShiftAnchor), Shl32(ToU32(t), ShiftTarget)), ToU32(d))

\* Entries a client may send: hashes of the audio below with their anchors, a
\* hash of equal frequencies, one of delta 0, a second numeral of the first
\* hash, a key that is no number, the numeral of 2^32, and an anchor time
\* above 2^31.
WireEntries ==
  {Wire(Decimal(Pack(5, 7, 12)), ToU32(0)),
   Wire(Decimal(Pack(5, 5, 24)), ToU32(0)),
   Wire(Decimal(Pack(7, 7, 24)), ToU32(12)),
   Wire(Decimal(Pack(5, 7, 0)), ToU32(0)),
   Wire(<<0>> \o Decimal(Pack(5, 7, 12)), ToU32(24)),
   Wire(<<10>>, ToU32(0)),
   Wire(<<4, 2, 9, 4, 9, 6, 7, 2, 9, 6>>, ToU32(0)),
   Wire(Decimal(Pack(7, 5, 12)), ToU32(-12))}

Requests == {req \in SUBSET WireEntries : Cardinality(req) <= MaxWire}

\* Audio, as the peaks ExtractPeaks returns for it: one peak (no pair), two
\* peaks (one pair), and four peaks in frames 12 ms apart (six pairs).
Audios ==
  {<<Peak(5, 0)>>,
   <<Peak(5, 0), Peak(7, 120)>>,
   <<Peak(5, 0), Peak(7, 120), Peak(5, 240), Peak(7, 360)>>}

\* ------------------------------------------------- MatchSong, MatchHashes

\* for hash := range m { hashList = append(hashList, hash) }
RECURSIVE SetToSeq(_)
SetToSeq(S) ==
  IF S = {} THEN <<>> ELSE LET x == CHOOSE y \in S : TRUE IN <<x>> \o SetToSeq(S \ {x})

HashesOf(entries) == {entries[k].hash : k \in DOMAIN entries}

MatchResult(song, match, confidence) ==
  [song |-> song.id, key |-> song.key, yt |-> song.yt, score |-> match.count,
   offset |-> match.offset, confidence |-> confidence]

\* AddSong on an audio file.
CallAddAudio(p, budget, hist) ==
  \E k \in Keys, a \in Audios :
    Begin(p, budget, hist, "addsong", [NoArg EXCEPT !.key = k, !.peaks = a], "add_pipeline")

CallMatchSong(p, budget, hist) ==
  \E a \in Audios :
    Begin(p, budget, hist, "matchsong", [NoArg EXCEPT !.peaks = a], "match_pipeline")

\* Each request with what ToHashMap can return for it: one result for each
\* order in which Go may walk r.Hashes.
Converted ==
  UNION {{[req |-> req, hashMap |-> ToHashMap(order)] : order \in Perms(req)} : req \in Requests}

\* handleMatchHashes: req.Validate(), req.ToHashMap(), each answered with 400
\* on an error; then s.service.MatchHashes(ctx, hashMap).
CallMatchHashes(p, budget, hist) ==
  /\ pc[p] = "idle"
  /\ \E c \in Converted :
       LET a == [NoArg EXCEPT !.wire = c.req] IN
       IF c.req = {}
       THEN UNCHANGED faults /\ Answer(p, budget, hist, "matchhashes", a, FALSE, "empty")
       ELSE IF ~c.hashMap.ok
       THEN UNCHANGED faults /\ Answer(p, budget, hist, "matchhashes", a, FALSE, "invalid")
       ELSE Begin(p, budget, hist, "matchhashes", [a EXCEPT !.query = c.hashMap.result],
                  "match_votes")

\* Convert, read, spectrogram, peaks: an error returns before the store is read.
MatchPipeline(p) ==
  /\ pc[p] = "match_pipeline"
  /\ UNCHANGED <<songs, fingerprints, nextID, tx, prev, pre, pre2, nops, faults>>
  /\ \/ Finish(p, FALSE, 0, "pipeline", TRUE)
     \/ Goto(p, "match_lookup", loc[p])

\* MatchSong: Fingerprint(queryPeaks, ""), GetCouplesByHashes(hashList) (no
\* statement is issued for an empty list), QueryFingerprints(queryPeaks, dbMap).
MatchSongLookup(p) ==
  /\ pc[p] = "match_lookup"
  /\ UNCHANGED <<songs, fingerprints, nextID, tx, prev, pre, pre2, nops>>
  /\ LET entries == QueryEntries(arg[p].peaks)
         hashList == SetToSeq(HashesOf(entries))
     IN \/ Fault /\ Len(hashList) > 0 /\ Finish(p, FALSE, 0, "lookup", TRUE)
        \/ /\ UNCHANGED faults
           /\ LET dbMap == GetCouplesByHashes(hashList) IN
              \E matches \in QueryFingerprints(arg[p].peaks, dbMap) :
                Goto(p, "match_song",
                     [loc[p] EXCEPT !.done = 0,
                        !.m = [NoMatching EXCEPT
                                 !.entries = entries, !.count = Len(hashList), !.db = dbMap,
                                 !.matches = matches]])

\* for queryHash, queryAnchorTime := range hashes: the entries MatchHashes votes with.
HashEntries(hashes) == SetToSeq({[hash |-> h, anchor |-> hashes[h]] : h \in DOMAIN hashes})

\* MatchHashes: GetCouplesByHashes(hashList), the votes, the best offset of
\* each song; the matches stay in the order the map of votes is walked.  The
\* handler never passes an empty map.
MatchHashesLookup(p) ==
  /\ pc[p] = "match_votes"
  /\ UNCHANGED <<songs, fingerprints, nextID, tx, prev, pre, pre2, nops>>
  /\ LET hashes == arg[p].query
         entries == HashEntries(hashes)
     IN \/ Fault /\ Finish(p, FALSE, 0, "lookup", TRUE)
        \/ /\ UNCHANGED faults
           /\ LET dbMap == GetCouplesByHashes(SetToSeq(DOMAIN hashes)) IN
              \E matches \in MatchesOf(Vote(<<>>, entries, dbMap)) :
                Goto(p, "match_song",
                     [loc[p] EXCEPT !.done = 0,
                        !.m = [NoMatching EXCEPT
                                 !.entries = entries, !.count = Cardinality(DOMAIN hashes),
                                 !.db = dbMap, !.matches = matches]])

\* for _, match := range matches: s.GetSongByID(match.SongID); on an error the
\* match is skipped.
MatchGetSong(p) ==
  /\ pc[p] = "match_song"
  /\ loc[p].done < Len(loc[p].m.matches)
  /\ UNCHANGED <<songs, fingerprints, nextID, tx, prev, pre, pre2, nops>>
  /\ LET match == loc[p].m.matches[loc[p].done + 1]
         skip == [loc[p] EXCEPT !.done = @ + 1, !.m.skipped = @ \cup {match.song}]
     IN \/ Fault /\ Goto(p, "match_song", skip)
        \/ /\ UNCHANGED faults
           /\ IF GetSongByID(match.song).err # "" THEN Goto(p, "match_song", skip)
              ELSE Goto(p, "match_count", [loc[p] EXCEPT !.song = GetSongByID(match.song).song])

\* s.storage.GetFingerprintCount(match.SongID), on an error len(queryFPs) or
\* len(hashes) in its place; calculateConfidence; the result is appended.
MatchGetCount(p) ==
  /\ pc[p] = "match_count"
  /\ UNCHANGED <<songs, fingerprints, nextID, tx, prev, pre, pre2, nops>>
  /\ LET m == loc[p].m
         match == m.matches[loc[p].done + 1]
         Appended(dbFingerprintCount) ==
           [loc[p] EXCEPT
              !.done = @ + 1, !.song = NoSong,
              !.m.results = Append(@, MatchResult(loc[p].song, match,
                                      calculateConfidence(match.count, m.count,
                                                          dbFingerprintCount)))]
     IN \/ Fault /\ Goto(p, "match_song", Appended(m.count))
        \/ UNCHANGED faults /\ Goto(p, "match_song", Appended(GetFingerprintCount(match.song)))

\* return results, nil
MatchReturn(p) ==
  /\ pc[p] = "match_song"
  /\ loc[p].done >= Len(loc[p].m.matches)
  /\ UNCHANGED <<songs, fingerprints, nextID, tx, prev, pre, pre2, nops, faults>>
  /\ Return(p, TRUE, 0, "", TRUE, <<loc[p].m>>)

\* ------------------------------------------------------- specifications

\* One client that registers and deletes, one call after the other.
RegNext ==
  \/ CallRegisterSong(1, MaxSeqOps, 2, Keys)
  \/ CallDeleteSongByID(1, MaxSeqOps, 2)
  \/ RegisterFind(1)
  \/ RegisterUpdate(1)
  \/ RegisterCreate(1)
  \/ DeleteFingerprints(1)
  \/ DeleteSong(1)
  \/ DeleteCommit(1)

RegSpec == Init /\ [][RegNext]_vars

\* One client that ingests, deletes and reads, one call after the other.
IngestNext ==
  \/ CallAddSong(1, MaxIngest, 1)
  \/ CallDeleteSongByID(1, MaxIngest, 1)
  \/ CallGetSongByID(1, MaxIngest, 1)
  \/ CallGetFingerprintCount(1, MaxIngest, 1)
  \/ AddSongPipeline(1)
  \/ RegisterFind(1)
  \/ RegisterUpdate(1)
  \/ RegisterCreate(1)
  \/ StoreFlush(1)
  \/ StoreNothing(1)
  \/ DeleteFingerprints(1)
  \/ DeleteSong(1)
  \/ DeleteCommit(1)

IngestSpec == Init /\ [][IngestNext]_vars

\* One client of the fingerprint table, one call after the other.
StoreNext ==
  \/ CallStoreFingerprints(1, MaxStore, 1)
  \/ CallGetFingerprintCount(1, MaxStore, 1)
  \/ CallGetCouplesByHash(1, MaxStore, 1)
  \/ CallGetCouplesByHashes(1, MaxStore, 1)
  \/ StoreFlush(1)
  \/ StoreNothing(1)

StoreSpec == Init /\ [][StoreNext]_vars

\* Clients that register one and the same (title, artist), their statements
\* interleaved.
RaceNext ==
  \E p \in Procs :
    \/ CallRegisterSong(p, MaxOps, 0, {"k1"})
    \/ RegisterFind(p)
    \/ RegisterUpdate(p)
    \/ RegisterCreate(p)
    \/ RegisterRefetch(p)

RaceSpec == Init /\ [][RaceNext]_vars

\* One client whose ingests may be cancelled while they run.
CancelNext ==
  \/ CallAddSong(1, MaxCancel, 1)
  \/ Cancel(1)
  \/ AddSongPipeline(1)
  \/ RegisterFind(1)
  \/ RegisterUpdate(1)
  \/ RegisterCreate(1)
  \/ StoreFlush(1)
  \/ StoreNothing(1)
  \/ DeleteFingerprints(1)
  \/ DeleteSong(1)
  \/ DeleteCommit(1)

CancelSpec == Init /\ [][CancelNext]_vars

\* createAddress on one pair of peaks.
AddrNext == CallCreateAddress

AddrSpec == AddrInit /\ [][AddrNext]_vars

\* Fingerprint on one list of peaks.
FanNext == CallFingerprint

FanSpec == FanInit /\ [][FanNext]_vars

\* The two pairing loops on one list of peaks.
PairNext == CallPairPeaks

PairSpec == PairInit /\ [][PairNext]_vars

\* Fingerprint on two orderings of the same peaks.
OrderNext == CallFingerprintTwice

OrderSpec == OrderInit /\ [][OrderNext]_vars

\* scanWavChunks on one file.
WavNext == CallScanWavChunks

WavSpec == WavInit /\ [][WavNext]_vars

\* The calls of init() on one loader.
LoaderNext ==
  \E c \in Callers :
    \/ CallInit(c)
    \/ \E ok \in BOOLEAN : LoadWasmExec(c, ok)
    \/ \E ok \in BOOLEAN : Fetch(c, ok)
    \/ \E ok \in BOOLEAN : Instantiate(c, ok)
    \/ \E ok \in BOOLEAN : WaitForWasmReady(c, ok)
    \/ CheckReady(c)

LoaderSpec == LoaderInit /\ [][LoaderNext]_vars

\* The same under the scheduling of the browser: every promise awaited in
\* init() settles (_waitForWasmReady by its own timeout at the latest) and
\* the interval timer keeps firing. Nobody is obliged to call init() again.
LoaderFairSpec == LoaderSpec /\ \A c \in Callers : WF_vars(EventLoop(c))

\* calculateConfidence on one triple of counts.
ConfNext == CallCalculateConfidence

ConfSpec == ConfInit /\ [][ConfNext]_vars

\* QueryFingerprints on one list of query peaks and one database map.
QueryNext == CallQueryFingerprints

QuerySpec == QueryInit /\ [][QueryNext]_vars

\* One client that ingests audio and queries, by audio and by hashes, one
\* call after the other.
MatchNext ==
  \/ CallAddAudio(1, MaxMatch, 0)
  \/ CallMatchSong(1, MaxMatch, 0)
  \/ CallMatchHashes(1, MaxMatch, 0)
  \/ AddSongPipeline(1)
  \/ RegisterFind(1)
  \/ RegisterCreate(1)
  \/ StoreFlush(1)
  \/ StoreNothing(1)
  \/ DeleteFingerprints(1)
  \/ DeleteSong(1)
  \/ DeleteCommit(1)
  \/ MatchPipeline(1)
  \/ MatchSongLookup(1)
  \/ MatchHashesLookup(1)
  \/ MatchGetSong(1)
  \/ MatchGetCount(1)
  \/ MatchReturn(1)

MatchSpec == Init /\ [][MatchNext]_vars

\* Clients that ingest audio and delete songs, their statements interleaved.
ConcNext ==
  \E p \in Procs :
    \/ CallAddAudio(p, MaxOps, 0)
    \/ CallDeleteSongByID(p, MaxOps, 0)
    \/ AddSongPipeline(p)
    \/ RegisterFind(p)
    \/ RegisterCreate(p)
    \/ RegisterRefetch(p)
    \/ StoreFlush(p)
    \/ StoreNothing(p)
    \/ DeleteFingerprints(p)
    \/ DeleteSong(p)
    \/ DeleteCommit(p)

ConcSpec == Init /\ [][ConcNext]_vars

\* ================================================================ claims

\* Process p is back from a call of o.
Returned(p, o) == pc[p] = "idle" /\ ret[p].op = o

\* AddSong returned the error of StoreFingerprints: RegisterSong had returned ret[p].id.
StoreFailed(p) == Returned(p, "addsong") /\ ~ret[p].ok /\ ret[p].why = "store"

\* One row per couple of a fingerprint map.
RECURSIVE RowsOf(_)
RowsOf(fp) ==
  IF fp = <<>> THEN EmptyBag
  ELSE (Fingerprint(Head(fp).hash, Head(fp).song, Head(fp).anchor) :> Head(fp).n)
       (+) RowsOf(Tail(fp))

CountIn(bag, id) == BagCardinality(Where(bag, LAMBDA r : r.song = id))
HasSong(id) == SongsByID(id) # {}

C2_RollbackRestoresIndex ==
  (StoreFailed(1) /\ ret[1].rb) =>
     songs = pre.songs /\ fingerprints = pre.fingerprints

\* ---- C3
\* C3: during and after one StoreFingerprints call the table holds either none
\* or all of the rows of that call on top of what it held before.
C3_StoreAtomic ==
  /\ op[1] = "store" =>
       fingerprints \in {pre.fingerprints, pre.fingerprints (+) RowsOf(arg[1].fp)}
  /\ Returned(1, "store") =>
       fingerprints \in {pre.fingerprints, pre.fingerprints (+) RowsOf(ret[1].arg.fp)}

\* ---- C4
\* Two consecutive successful RegisterSong calls with the same (title, artist).
TwoRegisters ==
  /\ Returned(1, "register") /\ ret[1].ok
  /\ prev[1].op = "register" /\ prev[1].ok
  /\ prev[1].arg.key = ret[1].arg.key

\* The externalVideoId of the pair before the first of the two calls.
YouTubeIDBefore(key) ==
  LET before == {s \in pre2.songs : s.key = key} IN
  IF before = {} THEN "" ELSE (CHOOSE s \in before : TRUE).yt

\* C4 as stated: both calls return the same id, one record holds the pair, and
\* its externalVideoId is y1 if y1 is non-empty, else y2.
C4_SecondKeepsFirst ==
  TwoRegisters =>
    /\ ret[1].id = prev[1].id
    /\ Cardinality(SongsByKey(ret[1].arg.key)) = 1
    /\ \A s \in SongsByKey(ret[1].arg.key) :
         s.yt = IF prev[1].arg.yt # "" THEN prev[1].arg.yt ELSE ret[1].arg.yt

\* C4 amended: both calls return the same id, one record holds the pair, and
\* its externalVideoId is the one stored before the first call if that was
\* non-empty, else y1 if y1 is non-empty, else y2.
C4_IdempotentUpsert ==
  TwoRegisters =>
    /\ ret[1].id = prev[1].id
    /\ Cardinality(SongsByKey(ret[1].arg.key)) = 1
    /\ \A s \in SongsByKey(ret[1].arg.key) :
         /\ s.id = ret[1].id
         /\ s.yt = IF YouTubeIDBefore(s.key) # "" THEN YouTubeIDBefore(s.key)
                   ELSE IF prev[1].arg.yt # "" THEN prev[1].arg.yt
                   ELSE ret[1].arg.yt

C4_Witness ==
  /\ TwoRegisters
  /\ {s \in pre2.songs : s.key = ret[1].arg.key} = {}
  /\ prev[1].arg.yt = "" /\ ret[1].arg.yt # ""
  /\ \A s \in SongsByKey(ret[1].arg.key) : s.yt = ret[1].arg.yt

DeleteThenRegister ==
  /\ Returned(1, "register") /\ ret[1].ok
  /\ prev[1].op = "delete" /\ prev[1].ok
  /\ \E s \in pre2.songs : s.id = prev[1].arg.id /\ s.key = ret[1].arg.key

\* C6: RegisterSong after the deletion of the record of the same pair returns
\* an id other than the deleted one.
C6_NewIDAfterDelete ==
  DeleteThenRegister => ret[1].id # prev[1].arg.id

C6_Witness == DeleteThenRegister /\ HasSong(ret[1].id)

\* ---- C7
\* C7: after a successful DeleteSongByID(id), GetFingerprintCount(id) is 0 and
\* GetSongByID(id) fails with NotFound.
C7_DeleteComplete ==
  (Returned(1, "delete") /\ ret[1].ok) =>
     /\ GetFingerprintCount(ret[1].arg.id) = 0
     /\ GetSongByID(ret[1].arg.id).err = "NotFound"

C7_Witness ==
  /\ Returned(1, "delete") /\ ret[1].ok
  /\ \E s \in pre.songs : s.id = ret[1].arg.id
  /\ CountIn(pre.fingerprints, ret[1].arg.id) > FlushThreshold
  /\ GetFingerprintCount(ret[1].arg.id) = 0

\* ---- C8
\* C8: a step that takes away the record of a song or any of its fingerprint
\* rows takes away both: no state shows one without the other.
C8_DeleteAtomic ==
  [][\A id \in 1..nextID :
       (\/ HasSong(id) /\ ~HasSong(id)'
        \/ GetFingerprintCount(id)' < GetFingerprintCount(id))
       => (~HasSong(id)' /\ GetFingerprintCount(id)' = 0)]_vars

\* Both deletes are done inside the open transaction, neither is visible.
C8_Witness ==
  /\ tx.owner = 1 /\ tx.fpsOf # {} /\ tx.songsOf = tx.fpsOf
  /\ \A id \in tx.songsOf : HasSong(id) /\ GetFingerprintCount(id) > 0

\* ---- C9
\* C9: after a successful StoreFingerprints(m) the table is what it was plus
\* one row per couple of m, however many rows m has and whether or not they repeat.
C9_StoreAddsAllRows ==
  (Returned(1, "store") /\ ret[1].ok) =>
     fingerprints = pre.fingerprints (+) RowsOf(ret[1].arg.fp)

C9_Witness ==
  /\ Returned(1, "store") /\ ret[1].ok
  /\ Total(ret[1].arg.fp) > FlushThreshold
  /\ \E r \in DOMAIN pre.fingerprints : BagIn(r, RowsOf(ret[1].arg.fp))
  /\ fingerprints = pre.fingerprints (+) RowsOf(ret[1].arg.fp)

\* ---- C10
\* C10: GetCouplesByHashes(H) maps exactly the hashes of H that have rows, each
\* to the couples GetCouplesByHash returns for it.
C10_BatchLookup ==
  \A hs \in HashLists :
    LET H == {hs[i] : i \in DOMAIN hs}
        got == GetCouplesByHashes(hs)
    IN /\ DOMAIN got \subseteq H
       /\ DOMAIN got = {h \in H : GetCouplesByHash(h) # EmptyBag}
       /\ \A h \in DOMAIN got : got[h] = GetCouplesByHash(h)

C10_Witness ==
  /\ Returned(1, "byhashes") /\ ret[1].ok
  /\ \E h \in DOMAIN ret[1].res[1] : Cardinality(DOMAIN ret[1].res[1][h]) >= 2
  /\ \E i \in DOMAIN ret[1].arg.hashes : ret[1].arg.hashes[i] \notin DOMAIN ret[1].res[1]

\* ---- C11
\* The context of the ingest that has returned was cancelled at a boundary.
CancelledIngest == Returned(1, "addsong") /\ ctx[1] # "live"

\* C11: an ingest whose context was cancelled at a boundary (before the decoder,
\* before RegisterSong, before StoreFingerprints) returns an error and leaves no
\* record and no row that it inserted.
C11_CancelLeavesNothing ==
  CancelledIngest =>
    /\ ~ret[1].ok
    /\ songs \subseteq pre.songs
    /\ \A r \in DOMAIN fingerprints :
         r \in DOMAIN pre.fingerprints /\ fingerprints[r] <= pre.fingerprints[r]

\* ---- C17
\* createAddress has returned for the pair in input.
AddressMade == input.fn = "createAddress" /\ output.fn = "createAddress"
DeltaOf == RoundMs(input.target.Time - input.anchor.Time)

\* C17: a pair whose delta, rounded to milliseconds, is below 10 or above 15000,
\* or one of whose frequency indices exceeds 511, gets no address.
C17_OutOfRangeRejected ==
  (AddressMade /\ (\/ DeltaOf < 10
                   \/ DeltaOf > 15000
                   \/ input.anchor.FreqIdx > 511
                   \/ input.target.FreqIdx > 511))
    => ~output.r.ok

C17_Witness ==
  /\ AddressMade /\ ~output.r.ok
  /\ DeltaOf \in 10..15000
  /\ input.anchor.FreqIdx <= 511 /\ input.target.FreqIdx = 512

\* ---- C18
\* The three fields of an address: (h >> 23) & 0x1FF, (h >> 14) & 0x1FF, h & 0x3FFF.
Unpack(h) ==
  <<And32(Shr32(h, 23), ToU32(511)), And32(Shr32(h, 14), ToU32(511)), And32(h, ToU32(16383))>>

InRange(a, t, d) == a \in 0..511 /\ t \in 0..511 /\ d \in 10..15000

\* C18: for a, t in [0, 512) and d in [10, 15000] createAddress succeeds and the
\* unpacking of its address gives back (a, t, d); no other such triple gets the
\* same address.
C18_PackUnpack ==
  (AddressMade /\ InRange(input.anchor.FreqIdx, input.target.FreqIdx, DeltaOf)) =>
    /\ output.r.ok
    /\ Unpack(output.r.address)
         = <<ToU32(input.anchor.FreqIdx), ToU32(input.target.FreqIdx), ToU32(DeltaOf)>>
    /\ \A a \in {0, 1, 255, 256, 511}, t \in {0, 1, 255, 256, 511}, d \in {10, 8192, 15000} :
         createAddress(Peak(a, 0), Peak(t, 10 * d)).address = output.r.address
           => <<a, t, d>> = <<input.anchor.FreqIdx, input.target.FreqIdx, DeltaOf>>

C18_Witness ==
  /\ AddressMade /\ output.r.ok
  /\ input.anchor.FreqIdx = 511 /\ input.target.FreqIdx = 256 /\ DeltaOf = 15000
  /\ output.r.address = Word(65408 + 64, 15000)

\* ---- C16
Fingerprinted == input.fn = "Fingerprint" /\ output.fn = "Fingerprint"

\* The targets createAddress accepts for anchor i of the sorted list, and the
\* targets the hasher emitted a pair for.
Acceptable(sorted, i) ==
  {j \in (i + 1)..Len(sorted) : createAddress(sorted[i], sorted[j]).ok}
Emitted(pairs, i) == {pairs[n].j : n \in {m \in DOMAIN pairs : pairs[m].i = i}}

\* C16: the peaks are paired in time order; each anchor gets a pair for exactly
\* the first min(6, number acceptable) acceptable later peaks, each once and in
\* increasing order; a rejected peak does not count toward the 6.
C16_FanOut ==
  Fingerprinted =>
    LET sorted == output.r.sorted
        pairs == output.r.pairs
    IN /\ \A i, j \in DOMAIN sorted : i < j => sorted[i].Time <= sorted[j].Time
       /\ \A i \in DOMAIN sorted :
            LET acc == Acceptable(sorted, i) IN
            /\ Emitted(pairs, i) = {j \in acc : Cardinality({k \in acc : k < j}) < 6}
            /\ Cardinality(Emitted(pairs, i)) = Min(6, Cardinality(acc))
       /\ \A m, n \in DOMAIN pairs :
            (m < n /\ pairs[m].i = pairs[n].i) => pairs[m].j < pairs[n].j

\* An anchor that got its 6 pairs although a peak between them was rejected.
C16_Witness ==
  /\ Fingerprinted
  /\ \E i \in DOMAIN output.r.sorted :
       /\ Cardinality(Emitted(output.r.pairs, i)) = 6
       /\ \E j \in (i + 1)..Len(output.r.sorted) :
            /\ j \notin Acceptable(output.r.sorted, i)
            /\ \E k \in Emitted(output.r.pairs, i) : k > j

\* ---- C19
Scored == input.fn = "calculateConfidence" /\ output.fn = "calculateConfidence"

\* C19: the confidence lies in [0, 100], and it is 0 exactly when one of the
\* three counts is 0.
C19_ConfidenceRange ==
  Scored =>
    /\ output.r >= 0 /\ output.r <= 100 * 1000
    /\ output.r = 0 <=> (input.matchCount = 0 \/ input.queryFPCount = 0 \/ input.dbFPCount = 0)

\* A single aligned pair among a thousand hashes: positive, below one percent.
C19_Witness ==
  /\ Scored
  /\ input.matchCount = 1 /\ input.queryFPCount = 1000 /\ input.dbFPCount = 1000
  /\ output.r > 0 /\ output.r < 1000

\* ---- C14
Queried == input.fn = "QueryFingerprints" /\ output.fn = "QueryFingerprints"

\* C14: the list QueryFingerprints returns is non-increasing in vote count,
\* whatever the query peaks and the database map.
C14_NonIncreasing ==
  Queried => \A i, j \in DOMAIN output.r : i < j => output.r[i].count >= output.r[j].count

\* Two candidates of different counts are returned.
C14_Witness ==
  /\ Queried
  /\ Len(output.r) = 2
  /\ output.r[1].count > output.r[2].count

\* ---- C15
\* A query of process 1 has returned its results; Matching is what it worked on.
Matched == pc[1] = "idle" /\ ret[1].op \in {"matchsong", "matchhashes"} /\ ret[1].ok
Matching == ret[1].res[1]

\* The pairs of a query entry and a stored row under the hash of that entry
\* (a row stored n times pairs n times), and the offset of such a pair.
Pairings(m) ==
  UNION {UNION {{<<k, r, n>> : n \in 1..fingerprints[r]} :
                  r \in {x \in DOMAIN fingerprints : x.hash = m.entries[k].hash}} :
           k \in DOMAIN m.entries}
OffsetOf(m, t) == Offset(t[2].anchor, m.entries[t[1]].anchor)
Aligned(m, R, d) ==
  Cardinality({t \in Pairings(m) : t[2].song = R /\ OffsetOf(m, t) = d})
OffsetsOf(m, R) == {OffsetOf(m, t) : t \in {u \in Pairings(m) : u[2].song = R}}
BestAligned(m, R) ==
  LET ofR == {t \in Pairings(m) : t[2].song = R}
      counts == {Cardinality({u \in ofR : OffsetOf(m, u) = OffsetOf(m, t)}) : t \in ofR}
  IN IF ofR = {} THEN 0 ELSE CHOOSE n \in counts : \A k \in counts : k <= n

\* C15: for each reference R the matcher emits R exactly when some offset has
\* a pair of a query entry and a stored couple of R under the same hash; the
\* emitted bestCount is the largest number of such pairs at one offset, and
\* the emitted bestOffset is an offset with that many pairs.  The offset of a
\* pair is int32(dbAnchor) - int32(queryAnchor).
C15_BestCount ==
  Matched =>
    \A R \in 1..nextID :
      LET emitted == {i \in DOMAIN Matching.matches : Matching.matches[i].song = R}
          best == BestAligned(Matching, R)
      IN /\ Cardinality(emitted) = IF best > 0 THEN 1 ELSE 0
         /\ \A i \in emitted :
              /\ Matching.matches[i].count = best
              /\ Aligned(Matching, R, Matching.matches[i].offset) = best

\* A query by hashes with an anchor time above 2^31 whose best offset has two
\* pairs while another offset of the same reference has one.
C15_Witness ==
  /\ Matched /\ ret[1].op = "matchhashes"
  /\ \E k \in DOMAIN Matching.entries : Matching.entries[k].anchor.hi >= Half \div 2
  /\ \E i \in DOMAIN Matching.matches :
       /\ Matching.matches[i].count = 2
       /\ \E d \in OffsetsOf(Matching, Matching.matches[i].song) :
            Aligned(Matching, Matching.matches[i].song, d) = 1

\* ---- C13
\* C13: the results of a query, by audio or by hashes, are in non-increasing
\* order of score.
C13_ResultsSorted ==
  Matched =>
    \A i, j \in DOMAIN Matching.results :
      i < j => Matching.results[i].score >= Matching.results[j].score

\* ---- C20
ZeroDeltaOrEqualFreqs(h) == Unpack(h)[3] = ToU32(0) \/ Unpack(h)[1] = Unpack(h)[2]

\* C20: no hash of a request whose delta field is 0, or whose anchor and
\* target frequency fields are equal, is among the hashes MatchHashes looks up
\* and votes with.
C20_InvalidHashUnused ==
  (Matched /\ ret[1].op = "matchhashes") =>
    \A k \in DOMAIN Matching.entries : ~ZeroDeltaOrEqualFreqs(Matching.entries[k].hash)

\* ---- C12
\* The rows of reference R are exactly those of one ingest of the audio.
IngestedAs(audio, R) ==
  /\ HasSong(R)
  /\ Where(fingerprints, LAMBDA r : r.song = R) = RowsOf(Stamp(PeakRuns(audio), R))

\* MatchSong has returned the results for an audio ingested as R, and the
\* record of R could be read.
SelfQuery(R) ==
  /\ Matched /\ ret[1].op = "matchsong"
  /\ IngestedAs(ret[1].arg.peaks, R)
  /\ R \notin Matching.skipped

AnsweredHashes ==
  /\ pc[1] = "idle" /\ ret[1].op = "matchhashes"
  /\ ret[1].arg.wire # {}
  /\ \A e \in ret[1].arg.wire : ParseUint(e.key).ok

\* The hashes of a request that pass isValidHash.
ValidHashes(req) ==
  {h \in {ParseUint(e.key).value : e \in req} : isValidHash(h)}

C22_NoOrphanRows ==
  (\A p \in Procs : pc[p] = "idle") => \A r \in DOMAIN fingerprints : HasSong(r.song)

\* ---- C23
\* The fingerprint map AddSong computes from its arguments, before the id is known.
IngestMap(a) == a.fp \o PeakRuns(a.peaks)

\* A successful ingest has returned; when it was called, R was the record of
\* its (title, artist) and the rows of R were those of one ingest of the same audio.
SecondIngest(R) ==
  /\ Returned(1, "addsong") /\ ret[1].ok
  /\ \E s \in pre.songs : s.id = R /\ s.key = ret[1].arg.key
  /\ Where(pre.fingerprints, LAMBDA r : r.song = R) = RowsOf(Stamp(IngestMap(ret[1].arg), R))

\* C23: the second ingest of an audio under the same (title, artist) returns
\* the existing id and leaves the number of rows of that id as it was.
C23_IngestIdempotent ==
  \A R \in 1..nextID :
    SecondIngest(R) =>
      /\ ret[1].id = R
      /\ GetFingerprintCount(R) = CountIn(pre.fingerprints, R)

\* ---- C24
\* hashesToServerFormat on the array generateFingerprint returns: each hash of
\* the pairs with the anchor time of the first pair that has it.
HashesToServerFormat(pairs) ==
  [h \in {pairs[k].hash : k \in DOMAIN pairs} |->
     ToU32(pairs[CHOOSE k \in DOMAIN pairs :
                   pairs[k].hash = h /\ \A j \in 1..(k - 1) : pairs[j].hash # h].anchor)]

\* The candidates (reference, offset, score) MatchHashes can find for a hash
\* map in the index as it is.
HashCandidates(hashes) ==
  {{ms[i] : i \in DOMAIN ms} :
     ms \in MatchesOf(Vote(<<>>, HashEntries(hashes),
                           GetCouplesByHashes(SetToSeq(DOMAIN hashes))))}

\* C24: the candidates MatchSong found for an audio are candidates MatchHashes
\* finds, in the same index, for the hash map derived from the peaks of that audio.
C24_SameCandidates ==
  (Matched /\ ret[1].op = "matchsong") =>
    {Matching.matches[i] : i \in DOMAIN Matching.matches}
      \in HashCandidates(HashesToServerFormat(FingerprintPeaks(ret[1].arg.peaks).pairs))

\* ---- C25
\* C25: an address createAddress emits passes isValidHash, and the request
\* made of that address alone, written as a decimal key with the anchor time
\* of the pair, is converted to the map of that one hash.
C25_EmittedIsValid ==
  (AddressMade /\ output.r.ok) =>
    LET anchorTime == ToU32(AnchorTimeMs(input.anchor)) IN
    /\ isValidHash(output.r.address)
    /\ ToHashMap(<<Wire(Decimal(output.r.address), anchorTime)>>)
         = [ok |-> TRUE, result |-> (output.r.address :> anchorTime)]

\* ---- C26
Paired == input.fn = "MatchSong" /\ output.fn = "MatchSong"

\* The (address, anchorTimeMs) entries of the pairs Fingerprint emitted.
EntriesOf(pairs) ==
  [k \in DOMAIN pairs |-> [hash |-> pairs[k].hash, anchor |-> ToU32(pairs[k].anchor)]]

\* C26: the (address, anchorTimeMs) entries QueryFingerprints votes with are
\* those Fingerprint emits for the same peaks, one for one and in the same
\* order, so the addresses looked up are the addresses voted with.
C26_SamePairs ==
  Paired =>
    /\ output.entries = EntriesOf(output.queryFPs.pairs)
    /\ QueryEntries(input.peaks) = EntriesOf(output.queryFPs.pairs)
    /\ HashesOf(output.entries) = HashesOf(output.queryFPs.pairs)

\* An anchor with a rejected target and six accepted ones after it: both
\* loops emit the six.
C26_Witness ==
  /\ Paired
  /\ Len(output.entries) >= FanOut
  /\ \E i \in 1..(Len(output.queryFPs.sorted) - 1) :
       /\ ~createAddress(output.queryFPs.sorted[i], output.queryFPs.sorted[i + 1]).ok
       /\ Cardinality(Emitted(output.queryFPs.pairs, i)) = FanOut

\* ---- C27
\* C27: Fingerprint returns the same hash-to-couples map for two orderings of
\* the same peaks.
C27_OrderIndependent ==
  (input.fn = "Fingerprint" /\ output.fn = "Fingerprint") => output.fp = output.other

\* ---- C28
Scanned == input.fn = "scanWavChunks" /\ output.fn = "scanWavChunks"

FmtAt(chunks) == {i \in DOMAIN chunks : chunks[i].id = FmtID}
DataAt(chunks) == {i \in DOMAIN chunks : chunks[i].id = DataID}
First(S) == CHOOSE i \in S : \A j \in S : i <= j
Last(S) == CHOOSE i \in S : \A j \in S : i >= j

\* The format a fmt chunk of the model was written from.
FormatOf(c) == IF Len(c.body) = 16 THEN MonoFormat ELSE StereoFormat

\* C28: the reader fails exactly when the fmt chunk or the data chunk is
\* missing; otherwise it returns the format and the data of the fmt and data
\* chunks it met up to the point where it had seen both (the last of each, if
\* one kind came twice), whatever LIST chunks and pad bytes lie between.
C28_ChunksFound ==
  Scanned =>
    LET chunks == input.chunks
        fm == FmtAt(chunks)
        dt == DataAt(chunks)
    IN IF fm = {} THEN output.r.err = "fmt chunk not found"
       ELSE IF dt = {} THEN output.r.err = "data chunk not found"
       ELSE LET both == Max(First(fm), First(dt)) IN
            /\ output.r.err = ""
            /\ output.r.w.Format = FormatOf(chunks[Last({i \in fm : i <= both})])
            /\ output.r.w.Data = chunks[Last({i \in dt : i <= both})].body

\* An odd LIST chunk, then the fmt chunk of odd size, then the odd data chunk.
C28_Witness ==
  /\ Scanned
  /\ Len(input.chunks) = 3
  /\ input.chunks[1] = Chunk(ListID, <<100>>)
  /\ output.r.err = ""
  /\ output.r.w = [Format |-> StereoFormat, Data |-> <<3, 4, 5>>]

\* C29: every call of init() settles in the end, resolved or rejected, the
\* call made while another call was loading included.
C29_InitSettles ==
  \A c \in Callers :
    (output.call[c] \in Awaiting \cup {"checkReady"}) ~> (output.call[c] \in Settled)

\* ---- C30
\* A query is about to score candidate `match`: the three counts that
\* calculateConfidence gets when GetFingerprintCount answers.
Scoring(p) == pc[p] = "match_count"
Candidate(p) == loc[p].m.matches[loc[p].done + 1]

\* C30: the matchCount passed to calculateConfidence is at most the smaller of
\* the number of query hashes and the number of rows of the candidate.
C30_MatchCountBounded ==
  \A p \in Procs :
    Scoring(p) =>
      Candidate(p).count <= Min(loc[p].m.count, GetFingerprintCount(Candidate(p).song))

====
